---- MODULE Spec2Model ----
(***************************************************************************)
(* Capacity-constrained routing and admission-control engine of the        *)
(* Admissibility-Physics repository: interface cost model, path search,    *)
(* obligation admission (route_obligation), coordinate-descent relaxation  *)
(* (relax_routing), accumulated cost (History) and the Lambda floor        *)
(* estimator (estimate_lambda_floor).                                      *)
(*                                                                         *)
(* Floats are modelled in fixed point: a value v of the program is the     *)
(* integer v * Scale.  All coefficients used below are multiples of        *)
(* 1/Scale, and n*(n-1)/2 is an integer, so every cost is exact.           *)
(***************************************************************************)
EXTENDS Integers, Sequences, FiniteSets, TLC

VARIABLES
    mode,           \* which entry point of the engine is being exercised
    impl,           \* the module in use: "lambda_floor" (utils/lambda_floor.py),
                    \* "unified_V4" (core/admissibility_unified_V4.py) or
                    \* "accumulated_cost" (utils/accumulated_cost.py)
    network,        \* the Network under construction-time configuration
    \* ---- estimate_lambda_floor ----
    pc,             \* "loop" | "saturated" | "returned"; "idle" before and "decided" or
                    \* "called" after a call of route_obligation or transition_cost
    t,              \* index into obligation_stream of the next obligation
    stream_len,     \* len(obligation_stream)
    relax_every,    \* K
    active_routed,  \* List[RoutedObligation]
    action,         \* accumulated action
    prev_load,      \* load after the previous admission
    history,        \* List[LambdaState] (the reports)
    rejected,       \* Optional[Obligation]: the obligation route_obligation refused at the break
    \* ---- route_obligation called on its own ----
    existing_load,  \* argument
    obligation,     \* argument
    routed,         \* Optional[RoutedObligation]: <<>> is None, <<r>> is r
    \* ---- relax_routing called on its own ----
    routed_in,      \* argument: List[RoutedObligation]
    iterations,     \* argument: iteration cap
    rs,             \* the locals of relax_routing
    \* ---- History / transition_cost ----
    steps,          \* History.steps
    tc_interfaces,  \* interface list given to transition_cost
    L_prev, L_next, \* load vectors given to transition_cost
    tc_fwd, tc_bwd, \* transition_cost(L_prev, L_next), transition_cost(L_next, L_prev)
    lock_event,     \* Optional[RecordLockEvent] of the last attempt_record_undo
    \* ---- a pure function called on its own ----
    args,           \* the arguments of the call
    result,         \* Optional: what the call returned
    \* ---- two admissions sharing one load ----
    shared_load,    \* the load both admissions read and write
    procs           \* per admission: its position, the load it read, the path it chose

vars == <<mode, impl, network, pc, t, stream_len, relax_every, active_routed,
          action, prev_load, history, rejected, existing_load, obligation, routed,
          routed_in, iterations, rs, steps, tc_interfaces, L_prev, L_next,
          tc_fwd, tc_bwd, lock_event, args, result, shared_load, procs>>

-----------------------------------------------------------------------------
(* Bounds of the model *)

MaxStream == 3      \* longest obligation stream
MaxDemand == 2      \* largest demand of an obligation given to route_obligation on its own
MaxK == 2           \* largest relax_every
MaxLoad == 3        \* largest load per interface of an externally given load vector
MaxIter == 3        \* largest iteration cap given to relax_routing on its own
MaxSteps == 3       \* longest History
MaxHistLoad == 2    \* largest load per interface given to History.append or transition_cost
MaxRouted == 2      \* longest list of routed obligations given to relax_routing on its own
\* largest capacity (in cost units) of the interfaces constructed on their own
MaxCapacity == 8
\* largest load Interface.cost and Interface.headroom are called with
MaxCostLoad == 6
\* largest max_length and max_paths given to path search on its own
MaxSearchLength == 3
MaxSearchPaths == 3

-----------------------------------------------------------------------------
(* Fixed point and tolerances *)

Scale == 10

\* EPS_SLACK = 1e-6 and EPS_COST = 1e-9 in units of 1/Scale, rounded down:
\* for an integer h (in units of 1/Scale), h/Scale <= 1e-6 iff h <= Scale \div 10^6.
EPS_SLACK == Scale \div 1000000
EPS_COST == Scale \div 1000000000

Impls == {"lambda_floor", "unified_V4"}

\* Optional[...]: None is the empty sequence, a value x is <<x>>.
None == <<>>
Some(x) == <<x>>

\* float('inf') and finite floats
Inf == [finite |-> FALSE, v |-> 0]
Fin(x) == [finite |-> TRUE, v |-> x]
Less(x, b) == (~b.finite) \/ x < b.v

Abs(x) == IF x < 0 THEN -x ELSE x

-----------------------------------------------------------------------------
(* Interface *)

Interface(name, capacity, epsilon, eta) ==
    [name |-> name, capacity |-> capacity, epsilon |-> epsilon, eta |-> eta]

\* Variant of cost without the quadratic term: E(n) = epsilon*n
cost_linear(itf, n) ==
    IF n <= 0 THEN 0
    ELSE itf.epsilon * n

\* Variant of cost that subtracts the quadratic term
cost_discount(itf, n) ==
    IF n <= 0 THEN 0
    ELSE itf.epsilon * n - itf.eta * ((n * (n - 1)) \div 2)

\* E(n) = epsilon*n + eta*n*(n-1)/2, 0 for n <= 0
cost(itf, n) ==
    IF n <= 0 THEN 0
    ELSE itf.epsilon * n + itf.eta * ((n * (n - 1)) \div 2)

headroom(itf, n) == itf.capacity - cost(itf, n)

\* Constants.MAX_LOAD_PER_INTERFACE, and the 999 max_n returns when both
\* coefficients vanish
MAX_LOAD_PER_INTERFACE == 100
MAX_N_NO_COST == 999

\* int(x / y) for y > 0: the quotient truncated toward zero
trunc_div(x, y) == IF x >= 0 THEN x \div y ELSE -((-x) \div y)

\* disc = b*b - 4*a*c with a = eta/2, b = epsilon - eta/2, c = -capacity,
\* times 4 (the fixed-point values keep the halves exact)
disc4(itf) == (2 * itf.epsilon - itf.eta) * (2 * itf.epsilon - itf.eta)
              + 8 * itf.eta * itf.capacity

\* Variant of root_floor that stops one short of the root: "<" for "<=" in the
\* comparison with the discriminant
RECURSIVE root_floor_strict(_, _)
root_floor_strict(itf, n) ==
    LET lhs == 2 * itf.eta * (n + 1) + 2 * itf.epsilon - itf.eta
    IN  IF lhs < 0 \/ lhs * lhs < disc4(itf) THEN root_floor_strict(itf, n + 1) ELSE n

\* max(0, int((-b + sqrt(disc)) / (2*a))) for eta > 0 and disc >= 0: the largest
\* n >= 0 with 2*a*n + b <= sqrt(disc), counted up from n
RECURSIVE root_floor(_, _)
root_floor(itf, n) ==
    LET lhs == 2 * itf.eta * (n + 1) + 2 * itf.epsilon - itf.eta
    IN  IF lhs < 0 \/ lhs * lhs <= disc4(itf) THEN root_floor(itf, n + 1) ELSE n

\* Interface.max_n of lambda_floor.py, accumulated_cost.py, routing_engine_v1.py
max_n_unclamped(itf) ==
    IF itf.eta <= 0
    THEN IF itf.epsilon > 0 THEN trunc_div(itf.capacity, itf.epsilon) ELSE MAX_N_NO_COST
    ELSE IF disc4(itf) < 0 THEN 0 ELSE root_floor(itf, 0)

\* Interface.max_n: admissibility_unified_V4.py clamps the result to
\* Constants.MAX_LOAD_PER_INTERFACE
max_n(itf, im) ==
    IF im = "unified_V4" /\ max_n_unclamped(itf) > MAX_LOAD_PER_INTERFACE
    THEN MAX_LOAD_PER_INTERFACE
    ELSE max_n_unclamped(itf)

-----------------------------------------------------------------------------
(* LoadVector: a dict from interface name to load; a missing key reads 0 *)

EmptyLoad == <<>>

Get(loads, name) == IF name \in DOMAIN loads THEN loads[name] ELSE 0

\* d[name] = d.get(name, 0) + v
DictAdd(d, name, v) ==
    [k \in (DOMAIN d) \cup {name} |-> IF k = name THEN Get(d, name) + v ELSE d[k]]

-----------------------------------------------------------------------------
(* Network *)

Edge(u, v, itf) == [u |-> u, v |-> v, interface |-> itf]

other(edge, node) == IF node = edge.u THEN edge.v ELSE edge.u

\* _adjacency[node]: the edges touching node, in insertion order
adjacency(net, node) ==
    SelectSeq(net.edges, LAMBDA e : e.u = node \/ e.v = node)

\* neighbors(node): [(e.other(node), e) for e in _adjacency[node]]
neighbors(net, node) ==
    LET adj == adjacency(net, node)
    IN  [k \in 1..Len(adj) |-> [node |-> other(adj[k], node), edge |-> adj[k]]]

\* _interfaces: dict name -> Interface filled edge by edge (a later edge with the
\* same interface name overwrites the value and keeps the position)
RECURSIVE interfaces_upto(_, _)
interfaces_upto(net, k) ==
    IF k = 0 THEN <<>>
    ELSE LET sofar == interfaces_upto(net, k - 1)
             itf == net.edges[k].interface
             at == {j \in 1..Len(sofar) : sofar[j].name = itf.name}
         IN  IF at = {} THEN Append(sofar, itf)
             ELSE [j \in 1..Len(sofar) |-> IF j \in at THEN itf ELSE sofar[j]]

build_interfaces(net) == interfaces_upto(net, Len(net.edges))

-----------------------------------------------------------------------------
(* Networks the engine is configured with *)

\* example_lambda_saturation: one edge A-B, capacity 8, epsilon 1.0, eta 0.5
SaturationNet ==
    LET I1 == Interface("I1", 8 * Scale, Scale, Scale \div 2)
    IN  [nodes |-> <<"A", "B">>, edges |-> <<Edge("A", "B", I1)>>]

\* example_routing_vs_uniform: A-B on tight, B-C and A-C on the shared loose
RoutingNet ==
    LET I_tight == Interface("tight", 5 * Scale, Scale, Scale \div 2)
        I_loose == Interface("loose", 15 * Scale, Scale, (3 * Scale) \div 10)
    IN  [nodes |-> <<"A", "B", "C">>,
         edges |-> <<Edge("A", "B", I_tight), Edge("B", "C", I_loose),
                     Edge("A", "C", I_loose)>>]

\* a triangle with one interface per edge:
\* i0 (capacity 4, epsilon 1, eta 2), i1 (20, 0.5, 1), i2 (8, 2, 1)
TriangleNet ==
    LET i0 == Interface("i0", 4 * Scale, Scale, 2 * Scale)
        i1 == Interface("i1", 20 * Scale, Scale \div 2, Scale)
        i2 == Interface("i2", 8 * Scale, 2 * Scale, Scale)
    IN  [nodes |-> <<"A", "B", "C">>,
         edges |-> <<Edge("A", "B", i0), Edge("B", "C", i1), Edge("A", "C", i2)>>]

Networks == {SaturationNet, RoutingNet, TriangleNet}

\* a chain A-B-C whose two edges share the interface X
\* (capacity 10, epsilon 1, eta 1)
ChainNet ==
    LET X == Interface("X", 10 * Scale, Scale, Scale)
    IN  [nodes |-> <<"A", "B", "C">>,
         edges |-> <<Edge("A", "B", X), Edge("B", "C", X)>>]

\* the complete graph on A..E, one interface per edge (capacity 20, eta 1),
\* edges added in lexicographic order; epsilon is 2 on A-C, A-D, B-D, else 1
CompleteNet ==
    LET itf(name, eps) == Interface(name, 20 * Scale, eps * Scale, Scale)
    IN  [nodes |-> <<"A", "B", "C", "D", "E">>,
         edges |-> <<Edge("A", "B", itf("ab", 1)), Edge("A", "C", itf("ac", 2)),
                     Edge("A", "D", itf("ad", 2)), Edge("A", "E", itf("ae", 1)),
                     Edge("B", "C", itf("bc", 1)), Edge("B", "D", itf("bd", 2)),
                     Edge("B", "E", itf("be", 1)), Edge("C", "D", itf("cd", 1)),
                     Edge("C", "E", itf("ce", 1)), Edge("D", "E", itf("de", 1))>>]

\* the networks distances are computed on
MetricNetworks == Networks \cup {ChainNet, CompleteNet}

\* a diamond A-B-D / A-C-D with four equal interfaces (capacity 10, epsilon 1,
\* eta 1): the two routes from A to D cost the same on an empty load
DiamondNet ==
    LET itf(name) == Interface(name, 10 * Scale, Scale, Scale)
    IN  [nodes |-> <<"A", "B", "C", "D">>,
         edges |-> <<Edge("A", "B", itf("p")), Edge("A", "C", itf("q")),
                     Edge("B", "D", itf("r")), Edge("C", "D", itf("s"))>>]

\* the networks route_obligation is called on
AdmitNetworks == Networks \cup {DiamondNet}

\* a network with the single edge A-B on itf, as in example_lambda_saturation
UnitNet(itf) == [nodes |-> <<"A", "B">>, edges |-> <<Edge("A", "B", itf)>>]

\* the values an Interface is constructed with: capacities -1, 0, 1..MaxCapacity
\* and coefficients -1, 0, 0.5, 1, 2
Capacities == {-Scale, 0} \cup {c * Scale : c \in 1..MaxCapacity}
Coefficients == {-Scale, 0, Scale \div 2, Scale, 2 * Scale}

ConfigInterfaces ==
    {Interface("I1", c, e, h) : c \in Capacities, e \in Coefficients, h \in Coefficients}

\* positive capacity, non-negative coefficients, not both zero
ScenarioInterfaces ==
    {itf \in ConfigInterfaces :
        /\ itf.capacity > 0 /\ itf.epsilon >= 0 /\ itf.eta >= 0
        /\ itf.epsilon + itf.eta > 0}

\* a single edge whose interface (capacity 102, epsilon 1, eta 0) bears more
\* than Constants.MAX_LOAD_PER_INTERFACE units
WideNet == UnitNet(Interface("I1", 102 * Scale, Scale, 0))

ScenarioNetworks == {UnitNet(itf) : itf \in ScenarioInterfaces} \cup {WideNet}

AllNetworks ==
    MetricNetworks \cup {UnitNet(itf) : itf \in ConfigInterfaces} \cup {WideNet, DiamondNet}


\* Network.__post_init__ runs once per network: the registry is built at
\* construction and read afterwards
InterfaceTable == [net \in AllNetworks |-> build_interfaces(net)]

\* Network.interfaces()
interfaces(net) == InterfaceTable[net]

-----------------------------------------------------------------------------
(* Path and path search *)

Path(nodes, edges) == [nodes |-> nodes, edges |-> edges]

\* Path.load_contribution: one unit per traversed edge on that edge's interface
RECURSIVE contribution_upto(_, _)
contribution_upto(edges, k) ==
    IF k = 0 THEN EmptyLoad
    ELSE DictAdd(contribution_upto(edges, k - 1), edges[k].interface.name, 1)

load_contribution(path) == contribution_upto(path.edges, Len(path.edges))

Front(s) == SubSeq(s, 1, Len(s) - 1)

\* The nested dfs of find_all_paths.  st holds the objects the recursion shares
\* and mutates: paths, visited, path_nodes, path_edges.
RECURSIVE dfs(_, _, _, _, _, _)
RECURSIVE dfs_loop(_, _, _, _, _, _, _)
RECURSIVE dfs_loop_keep(_, _, _, _, _, _, _)
dfs(net, target, max_length, max_paths, current, st) ==
    IF Len(st.paths) >= max_paths \/ Len(st.path_edges) > max_length THEN st
    ELSE IF current = target
         THEN [st EXCEPT !.paths = Append(@, Path(st.path_nodes, st.path_edges))]
         ELSE dfs_loop(net, target, max_length, max_paths, current, 1, st)

\* Variant of dfs_loop without "visited.remove(neighbor)": a node stays
\* visited after the search has backtracked over it
dfs_loop_keep(net, target, max_length, max_paths, current, k, st) ==
    LET nb == neighbors(net, current)
    IN  IF k > Len(nb) THEN st
        ELSE IF nb[k].node \in st.visited
             THEN dfs_loop_keep(net, target, max_length, max_paths, current, k + 1, st)
             ELSE LET pushed == [st EXCEPT !.visited = @ \cup {nb[k].node},
                                           !.path_nodes = Append(@, nb[k].node),
                                           !.path_edges = Append(@, nb[k].edge)]
                      back == dfs(net, target, max_length, max_paths, nb[k].node, pushed)
                      popped == [back EXCEPT !.path_edges = Front(@),
                                             !.path_nodes = Front(@)]
                  IN  dfs_loop_keep(net, target, max_length, max_paths, current, k + 1, popped)

dfs_loop(net, target, max_length, max_paths, current, k, st) ==
    LET nb == neighbors(net, current)
    IN  IF k > Len(nb) THEN st
        ELSE IF nb[k].node \in st.visited
             THEN dfs_loop(net, target, max_length, max_paths, current, k + 1, st)
             ELSE LET pushed == [st EXCEPT !.visited = @ \cup {nb[k].node},
                                           !.path_nodes = Append(@, nb[k].node),
                                           !.path_edges = Append(@, nb[k].edge)]
                      back == dfs(net, target, max_length, max_paths, nb[k].node, pushed)
                      popped == [back EXCEPT !.path_edges = Front(@),
                                             !.path_nodes = Front(@),
                                             !.visited = @ \ {nb[k].node}]
                  IN  dfs_loop(net, target, max_length, max_paths, current, k + 1, popped)

\* paths.sort(key=len(edges)): a stable sort by edge count
RECURSIVE sort_by_length(_, _, _)
sort_by_length(paths, len, max_len) ==
    IF len > max_len THEN <<>>
    ELSE SelectSeq(paths, LAMBDA p : Len(p.edges) = len)
         \o sort_by_length(paths, len + 1, max_len)

dfs_result(net, source, target, max_length, max_paths) ==
    dfs(net, target, max_length, max_paths, source,
        [paths |-> <<>>, visited |-> {source},
         path_nodes |-> <<source>>, path_edges |-> <<>>])

find_all_paths(net, source, target, max_length, max_paths) ==
    IF source = target THEN <<Path(<<source>>, <<>>)>>
    ELSE sort_by_length(dfs_result(net, source, target, max_length, max_paths).paths,
                        0, max_length + 1)

\* Constants.MAX_PATH_LENGTH / the max_length=6 literal of lambda_floor.route_obligation
MAX_PATH_LENGTH == 8
LF_MAX_LENGTH == 6
ROUTE_MAX_PATHS == 10

max_length_of(im) == IF im = "lambda_floor" THEN LF_MAX_LENGTH ELSE MAX_PATH_LENGTH

\* Constants.MAX_PATHS
MAX_PATHS == 20

\* "max_length = max_length or Constants.MAX_PATH_LENGTH" and "max_paths =
\* max_paths or Constants.MAX_PATHS" in admissibility_unified_V4.py: a zero
\* argument is replaced by the default; the other modules take the value given
effective_max_length(im, max_length) ==
    IF im = "unified_V4" /\ max_length = 0 THEN MAX_PATH_LENGTH ELSE max_length
effective_max_paths(im, max_paths) ==
    IF im = "unified_V4" /\ max_paths = 0 THEN MAX_PATHS ELSE max_paths

\* find_all_paths / find_paths called with explicit bounds: the list returned,
\* the paths in the order dfs appended them, and the content of the objects
\* shared by the recursion when dfs has returned
search(net, source, target, max_length, max_paths, im) ==
    LET ml == effective_max_length(im, max_length)
        mp == effective_max_paths(im, max_paths)
        st == dfs_result(net, source, target, ml, mp)
    IN  IF source = target
        THEN [paths |-> <<Path(<<source>>, <<>>)>>, found |-> <<>>,
              visited |-> {source}, path_nodes |-> <<source>>, path_edges |-> <<>>]
        ELSE [paths |-> find_all_paths(net, source, target, ml, mp),
              found |-> st.paths,
              visited |-> st.visited, path_nodes |-> st.path_nodes,
              path_edges |-> st.path_edges]

AllNodes == UNION {{net.nodes[k] : k \in 1..Len(net.nodes)} : net \in AdmitNetworks}

\* find_all_paths is a pure function of the read-only network: its results for
\* the calls route_obligation makes, computed once
PathTable ==
    [net \in AllNetworks |->
        [im \in Impls |->
            [s \in AllNodes |->
                [d \in AllNodes |->
                    find_all_paths(net, s, d, max_length_of(im), ROUTE_MAX_PATHS)]]]]

-----------------------------------------------------------------------------
(* Cost functions *)

RECURSIVE sum_cost(_, _, _)
sum_cost(load, itfs, k) ==
    IF k = 0 THEN 0
    ELSE sum_cost(load, itfs, k - 1) + cost(itfs[k], Get(load, itfs[k].name))

\* Sum of E_i(load[i]) over the interfaces (keys of load that name no interface
\* are skipped, interfaces missing from load cost 0)
total_cost(load, itfs) == sum_cost(load, itfs, Len(itfs))

\* Variant of is_admissible with "headroom < EPS_SLACK" for "headroom <= EPS_SLACK":
\* a load on the boundary passes
is_admissible_boundary(load, itfs) ==
    \A k \in 1..Len(itfs) : ~(headroom(itfs[k], Get(load, itfs[k].name)) < EPS_SLACK)

\* every interface has headroom strictly above EPS_SLACK
is_admissible(load, itfs) ==
    \A k \in 1..Len(itfs) : ~(headroom(itfs[k], Get(load, itfs[k].name)) <= EPS_SLACK)

-----------------------------------------------------------------------------
(* Distance *)

\* the k=10 default of best_routing and the max_length=15 literal of
\* find_k_shortest_paths in routing_engine_v1.py
BEST_ROUTING_K == 10
K_SHORTEST_MAX_LENGTH == 15

\* find_k_shortest_paths: find_paths(max_paths=k*3, max_length=15)[:k]
find_k_shortest_paths(net, source, target, k) ==
    LET all_paths == find_all_paths(net, source, target, K_SHORTEST_MAX_LENGTH, k * 3)
    IN  SubSeq(all_paths, 1, IF Len(all_paths) < k THEN Len(all_paths) ELSE k)

\* the paths a distance is minimised over: best_routing's k shortest paths in
\* routing_engine_v1, find_all_paths(network, u, v, max_paths=10) in
\* TestSuite.test_metric_axioms
distance_paths(net, u, v, im) ==
    IF im = "routing_engine_v1" THEN find_k_shortest_paths(net, u, v, BEST_ROUTING_K)
    ELSE find_all_paths(net, u, v, MAX_PATH_LENGTH, ROUTE_MAX_PATHS)

\* "for path in paths": min_cost over the admissible path loads, inf if none
RECURSIVE min_cost_upto(_, _, _)
min_cost_upto(paths, itfs, k) ==
    IF k = 0 THEN Inf
    ELSE LET best == min_cost_upto(paths, itfs, k - 1)
             load == load_contribution(paths[k])
             c == total_cost(load, itfs)
         IN  IF is_admissible(load, itfs) /\ Less(c, best) THEN Fin(c) ELSE best

\* distance(network, u, v) / distances[(u, v)]
distance(net, u, v, im) ==
    IF u = v THEN Fin(0)
    ELSE LET paths == distance_paths(net, u, v, im)
         IN  min_cost_upto(paths, interfaces(net), Len(paths))

MetricImpls == {"unified_V4", "routing_engine_v1"}

\* distance_matrix(network) / the distances dict of test_metric_axioms
DistanceTable ==
    [net \in MetricNetworks |->
        [im \in MetricImpls |->
            [u \in {net.nodes[k] : k \in 1..Len(net.nodes)} |->
                [v \in {net.nodes[k] : k \in 1..Len(net.nodes)} |->
                    distance(net, u, v, im)]]]]

distance_matrix(net, im) == DistanceTable[net][im]

\* Variant of transition_cost that sums the signed differences
\* E_i(n_next) - E_i(n_prev), without abs
RECURSIVE sum_signed(_, _, _, _)
sum_signed(a, b, itfs, k) ==
    IF k = 0 THEN 0
    ELSE sum_signed(a, b, itfs, k - 1)
         + (cost(itfs[k], Get(b, itfs[k].name)) - cost(itfs[k], Get(a, itfs[k].name)))

transition_cost_signed(a, b, itfs) == sum_signed(a, b, itfs, Len(itfs))

RECURSIVE sum_abs(_, _, _, _)
sum_abs(a, b, itfs, k) ==
    IF k = 0 THEN 0
    ELSE sum_abs(a, b, itfs, k - 1)
         + Abs(cost(itfs[k], Get(b, itfs[k].name)) - cost(itfs[k], Get(a, itfs[k].name)))

transition_cost(a, b, itfs) == sum_abs(a, b, itfs, Len(itfs))

-----------------------------------------------------------------------------
(* Obligations and admission *)

Obligation(id, source, target, demand) ==
    [id |-> id, source |-> source, target |-> target, demand |-> demand]

RoutedObligation(ob, path) == [obligation |-> ob, path |-> path]

\* new_loads[name] = new_loads.get(name, 0) + contrib * demand, for each name of contrib
RECURSIVE add_edges(_, _, _, _)
add_edges(loads, edges, k, amount) ==
    IF k = 0 THEN loads
    ELSE DictAdd(add_edges(loads, edges, k - 1, amount), edges[k].interface.name, amount)

add_contribution(loads, path, demand) == add_edges(loads, path.edges, Len(path.edges), demand)

\* "for path in paths" of best_routing: analyze_routing adds one unit per edge of
\* the path to the existing load; the best admissible result so far
RECURSIVE best_upto(_, _, _, _)
best_upto(paths, itfs, load, k) ==
    IF k = 0 THEN [best_result |-> None, best_cost |-> Inf]
    ELSE LET best == best_upto(paths, itfs, load, k - 1)
             total_load == add_contribution(load, paths[k], 1)
             c == total_cost(total_load, itfs)
         IN  IF is_admissible(total_load, itfs) /\ Less(c, best.best_cost)
             THEN [best_result |-> Some([path |-> paths[k], load_vector |-> total_load,
                                         total_cost |-> c]),
                   best_cost |-> Fin(c)]
             ELSE best

\* best_routing(network, source, target, existing_load, k)
best_routing(net, source, target, load, k) ==
    LET paths == find_k_shortest_paths(net, source, target, k)
    IN  best_upto(paths, interfaces(net), load, Len(paths)).best_result

\* Variant of route_loop that keeps the first admissible candidate (the
\* shortest one) whatever its cost
RECURSIVE route_loop_first(_, _, _, _, _)
route_loop_first(paths, k, itfs, ob, load) ==
    IF k = 0 THEN [best_path |-> None, best_cost |-> Inf]
    ELSE LET best == route_loop_first(paths, k - 1, itfs, ob, load)
             new_load == add_contribution(load, paths[k], ob.demand)
             c == total_cost(new_load, itfs)
         IN  IF ~is_admissible(new_load, itfs) THEN best
             ELSE IF best.best_path = None
                  THEN [best_path |-> Some(paths[k]), best_cost |-> Fin(c)]
                  ELSE best

\* Variant of the loop that skips the admissibility test of the new load
RECURSIVE route_loop_unchecked(_, _, _, _, _)
route_loop_unchecked(paths, k, itfs, ob, load) ==
    IF k = 0 THEN [best_path |-> None, best_cost |-> Inf]
    ELSE LET best == route_loop_unchecked(paths, k - 1, itfs, ob, load)
             new_load == add_contribution(load, paths[k], ob.demand)
             c == total_cost(new_load, itfs)
         IN  IF Less(c, best.best_cost)
             THEN [best_path |-> Some(paths[k]), best_cost |-> Fin(c)]
             ELSE best

\* Variant of the loop that tests admissibility on the interfaces of the
\* candidate path only
RECURSIVE route_loop_on_path(_, _, _, _, _)
route_loop_on_path(paths, k, itfs, ob, load) ==
    IF k = 0 THEN [best_path |-> None, best_cost |-> Inf]
    ELSE LET best == route_loop_on_path(paths, k - 1, itfs, ob, load)
             new_load == add_contribution(load, paths[k], ob.demand)
             c == total_cost(new_load, itfs)
             on_path == [j \in 1..Len(paths[k].edges) |-> paths[k].edges[j].interface]
         IN  IF ~is_admissible(new_load, on_path) THEN best
             ELSE IF Less(c, best.best_cost)
                  THEN [best_path |-> Some(paths[k]), best_cost |-> Fin(c)]
                  ELSE best

\* Variant of the loop in which a candidate of equal cost replaces the best
RECURSIVE route_loop_last(_, _, _, _, _)
route_loop_last(paths, k, itfs, ob, load) ==
    IF k = 0 THEN [best_path |-> None, best_cost |-> Inf]
    ELSE LET best == route_loop_last(paths, k - 1, itfs, ob, load)
             new_load == add_contribution(load, paths[k], ob.demand)
             c == total_cost(new_load, itfs)
         IN  IF ~is_admissible(new_load, itfs) THEN best
             ELSE IF (~best.best_cost.finite) \/ c <= best.best_cost.v
                  THEN [best_path |-> Some(paths[k]), best_cost |-> Fin(c)]
                  ELSE best

\* The loop of route_obligation over the candidate paths: best is
\* [best_path: Optional[Path], best_cost].
RECURSIVE route_loop(_, _, _, _, _)
route_loop(paths, k, itfs, ob, load) ==
    IF k = 0 THEN [best_path |-> None, best_cost |-> Inf]
    ELSE LET best == route_loop(paths, k - 1, itfs, ob, load)
             new_load == add_contribution(load, paths[k], ob.demand)
             c == total_cost(new_load, itfs)
         IN  IF ~is_admissible(new_load, itfs) THEN best
             ELSE IF Less(c, best.best_cost)
                  THEN [best_path |-> Some(paths[k]), best_cost |-> Fin(c)]
                  ELSE best

\* paths = find_all_paths(network, obligation.source, obligation.target, ...)
candidates(net, ob, im) == PathTable[net][im][ob.source][ob.target]

\* Variant of route_obligation that tries the shortest candidate only
route_obligation_shortest(net, ob, load, im) ==
    LET paths == candidates(net, ob, im)
        first == IF paths = <<>> THEN <<>> ELSE <<paths[1]>>
        best == route_loop(first, Len(first), interfaces(net), ob, load)
    IN  IF best.best_path = None THEN None
        ELSE Some(RoutedObligation(ob, best.best_path[1]))

route_obligation(net, ob, load, im) ==
    LET paths == candidates(net, ob, im)
        best == route_loop(paths, Len(paths), interfaces(net), ob, load)
    IN  IF best.best_path = None THEN None
        ELSE Some(RoutedObligation(ob, best.best_path[1]))

-----------------------------------------------------------------------------
(* Relaxation *)

RECURSIVE load_upto(_, _)
load_upto(rlist, k) ==
    IF k = 0 THEN EmptyLoad
    ELSE add_contribution(load_upto(rlist, k - 1), rlist[k].path, rlist[k].obligation.demand)

\* total load of a list of routed obligations
compute_load_from_routed(rlist) == load_upto(rlist, Len(rlist))

\* default iteration cap: relax_routing(iterations=3) / Constants.MAX_RELAX_ITERS
LF_RELAX_ITERS == 3
MAX_RELAX_ITERS == 10

default_iterations(im) == IF im = "lambda_floor" THEN LF_RELAX_ITERS ELSE MAX_RELAX_ITERS

\* the cap in effect: "iterations = iterations or Constants.MAX_RELAX_ITERS" in
\* admissibility_unified_V4.py replaces an argument of 0 by the default;
\* lambda_floor.py uses the argument as given
relax_cap(im, iters) ==
    IF im = "unified_V4" /\ iters = 0 THEN MAX_RELAX_ITERS ELSE iters

\* Variant without the copy ("current = routed"): the caller's list is the
\* list relax_routing writes to
caller_routed_alias(rlist, r) == r.current

\* "current = list(routed)": relax_routing writes current[i] of its own copy,
\* so the caller's list keeps its entries whatever the locals r hold
caller_routed(rlist, r) == rlist

\* the locals of relax_routing before the first pass
relax_start(net, rlist, iters) ==
    LET load == compute_load_from_routed(rlist)
        c == total_cost(load, interfaces(net))
    IN  [current |-> rlist, current_load |-> load, current_cost |-> c,
         initial_cost |-> c, pass |-> 1, i |-> 1, improved |-> FALSE,
         done |-> iters < 1]

\* Variant of relax_inner that swaps a route without setting improved
relax_inner_unflagged(net, r, im) ==
    LET ob == r.current[r.i].obligation
        remaining_load == add_contribution(r.current_load, r.current[r.i].path, -ob.demand)
        new_routed == route_obligation(net, ob, remaining_load, im)
    IN  IF new_routed = None THEN [r EXCEPT !.i = @ + 1]
        ELSE LET new_load == add_contribution(remaining_load, new_routed[1].path, ob.demand)
                 new_cost == total_cost(new_load, interfaces(net))
             IN  IF new_cost + EPS_COST < r.current_cost
                 THEN [r EXCEPT !.current[r.i] = new_routed[1],
                                !.current_load = new_load,
                                !.current_cost = new_cost,
                                !.i = @ + 1]
                 ELSE [r EXCEPT !.i = @ + 1]

\* Variant of relax_inner that swaps the route and the cost and leaves
\* current_load as it was
relax_inner_stale(net, r, im) ==
    LET ob == r.current[r.i].obligation
        remaining_load == add_contribution(r.current_load, r.current[r.i].path, -ob.demand)
        new_routed == route_obligation(net, ob, remaining_load, im)
    IN  IF new_routed = None THEN [r EXCEPT !.i = @ + 1]
        ELSE LET new_load == add_contribution(remaining_load, new_routed[1].path, ob.demand)
                 new_cost == total_cost(new_load, interfaces(net))
             IN  IF new_cost + EPS_COST < r.current_cost
                 THEN [r EXCEPT !.current[r.i] = new_routed[1],
                                !.current_cost = new_cost,
                                !.improved = TRUE,
                                !.i = @ + 1]
                 ELSE [r EXCEPT !.i = @ + 1]

\* Variant of relax_inner that drops an obligation route_obligation cannot
\* place any more, instead of keeping its current path
relax_inner_drop(net, r, im) ==
    LET ob == r.current[r.i].obligation
        remaining_load == add_contribution(r.current_load, r.current[r.i].path, -ob.demand)
        new_routed == route_obligation(net, ob, remaining_load, im)
    IN  IF new_routed = None
        THEN [r EXCEPT !.current = SubSeq(@, 1, r.i - 1) \o SubSeq(@, r.i + 1, Len(@)),
                       !.current_load = remaining_load,
                       !.current_cost = total_cost(remaining_load, interfaces(net))]
        ELSE LET new_load == add_contribution(remaining_load, new_routed[1].path, ob.demand)
                 new_cost == total_cost(new_load, interfaces(net))
             IN  IF new_cost + EPS_COST < r.current_cost
                 THEN [r EXCEPT !.current[r.i] = new_routed[1],
                                !.current_load = new_load,
                                !.current_cost = new_cost,
                                !.improved = TRUE,
                                !.i = @ + 1]
                 ELSE [r EXCEPT !.i = @ + 1]

\* Variant of relax_inner without the test "new_cost + EPS_COST < current_cost":
\* every re-routing is kept
relax_inner_unguarded(net, r, im) ==
    LET ob == r.current[r.i].obligation
        remaining_load == add_contribution(r.current_load, r.current[r.i].path, -ob.demand)
        new_routed == route_obligation(net, ob, remaining_load, im)
    IN  IF new_routed = None THEN [r EXCEPT !.i = @ + 1]
        ELSE LET new_load == add_contribution(remaining_load, new_routed[1].path, ob.demand)
                 new_cost == total_cost(new_load, interfaces(net))
             IN  [r EXCEPT !.current[r.i] = new_routed[1],
                           !.current_load = new_load,
                           !.current_cost = new_cost,
                           !.improved = new_cost + EPS_COST < r.current_cost,
                           !.i = @ + 1]

\* body of "for i in range(len(current))" for the obligation at position r.i
relax_inner(net, r, im) ==
    LET ob == r.current[r.i].obligation
        remaining_load == add_contribution(r.current_load, r.current[r.i].path, -ob.demand)
        new_routed == route_obligation(net, ob, remaining_load, im)
    IN  IF new_routed = None THEN [r EXCEPT !.i = @ + 1]
        ELSE LET new_load == add_contribution(remaining_load, new_routed[1].path, ob.demand)
                 new_cost == total_cost(new_load, interfaces(net))
             IN  IF new_cost + EPS_COST < r.current_cost
                 THEN [r EXCEPT !.current[r.i] = new_routed[1],
                                !.current_load = new_load,
                                !.current_cost = new_cost,
                                !.improved = TRUE,
                                !.i = @ + 1]
                 ELSE [r EXCEPT !.i = @ + 1]

\* Variant of relax_pass_end that ignores the iteration cap: passes go on
\* while a pass improves
relax_pass_end_uncapped(r, iters) ==
    IF ~r.improved THEN [r EXCEPT !.done = TRUE]
    ELSE [r EXCEPT !.pass = @ + 1, !.i = 1, !.improved = FALSE]

\* end of a pass: "if not improved: break", else the next pass while passes remain
relax_pass_end(r, iters) ==
    IF (~r.improved) \/ r.pass >= iters THEN [r EXCEPT !.done = TRUE]
    ELSE [r EXCEPT !.pass = @ + 1, !.i = 1, !.improved = FALSE]

relax_step(net, r, iters, im) ==
    IF r.i <= Len(r.current) THEN relax_inner(net, r, im) ELSE relax_pass_end(r, iters)

RECURSIVE relax_run(_, _, _, _)
relax_run(net, r, iters, im) ==
    IF r.done THEN r ELSE relax_run(net, relax_step(net, r, iters, im), iters, im)

\* relax_routing run to its return: .current, .current_load and
\* .initial_cost - .current_cost are the returned values
relax_routing(net, rlist, iters, im) ==
    relax_run(net, relax_start(net, rlist, relax_cap(im, iters)), relax_cap(im, iters), im)

-----------------------------------------------------------------------------
(* Saturation fraction and bottleneck *)

\* a ratio cost/capacity kept as a fraction; capacities are positive
Ratio(num, den) == [num |-> num, den |-> den]
RatioGreater(a, b) == a.num * b.den > b.num * a.den

RECURSIVE residual_fraction_upto(_, _, _)
residual_fraction_upto(load, itfs, k) ==
    IF k = 0 THEN [worst |-> Ratio(0, 1), bn |-> ""]
    ELSE LET sofar == residual_fraction_upto(load, itfs, k - 1)
             frac == IF itfs[k].capacity > 0
                     THEN Ratio(cost(itfs[k], Get(load, itfs[k].name)), itfs[k].capacity)
                     ELSE Ratio(1, 1)
         IN  IF RatioGreater(frac, sofar.worst)
             THEN [worst |-> frac, bn |-> itfs[k].name]
             ELSE sofar

\* lambda_floor.residual_fraction: max_i E_i/C_i and the interface attaining it
residual_fraction(load, itfs) == residual_fraction_upto(load, itfs, Len(itfs))

RECURSIVE min_headroom_upto(_, _, _)
min_headroom_upto(load, itfs, k) ==
    IF k = 0 THEN [worst_h |-> Inf, bn |-> ""]
    ELSE LET sofar == min_headroom_upto(load, itfs, k - 1)
             h == headroom(itfs[k], Get(load, itfs[k].name))
         IN  IF Less(h, sofar.worst_h)
             THEN [worst_h |-> Fin(h), bn |-> itfs[k].name]
             ELSE sofar

\* min_headroom: the smallest headroom and the first interface attaining it
min_headroom(load, itfs) == min_headroom_upto(load, itfs, Len(itfs))

\* Network.get_interface(name)
get_interface(net, name) ==
    LET itfs == interfaces(net)
    IN  SelectSeq(itfs, LAMBDA x : x.name = name)

\* unified_V4: lambda_sigma of the min-headroom bottleneck (0 when there is none)
v4_sigma(net, load) ==
    LET bn == min_headroom(load, interfaces(net)).bn
        bn_itf == get_interface(net, bn)
    IN  IF bn_itf = <<>> THEN Ratio(0, 1)
        ELSE Ratio(cost(bn_itf[1], Get(load, bn)), bn_itf[1].capacity)

-----------------------------------------------------------------------------
(* Inputs *)

NodesOf(net) == {net.nodes[k] : k \in 1..Len(net.nodes)}
NamesOf(net) == {interfaces(net)[k].name : k \in 1..Len(interfaces(net))}

\* the obligations a caller may submit on net with a given id
\* the (source, target) pairs obligations are drawn from: every unordered pair
\* of distinct nodes once, and one pair with source = target
PairsOf(net) ==
    {<<net.nodes[i], net.nodes[j]>> :
        <<i, j>> \in {ij \in (1..Len(net.nodes)) \X (1..Len(net.nodes)) :
                        ij[1] < ij[2] \/ (ij[1] = 1 /\ ij[2] = 1)}}

\* demands of the obligations of a stream or of a routed list
Demands == {1, 2}

\* the obligations of a stream or of a routed list, with a given id
ObligationsOf(net, id) ==
    {Obligation(id, p[1], p[2], q) : p \in PairsOf(net), q \in Demands}

\* the obligations route_obligation is called with on its own
CallObligationsOf(net) ==
    {Obligation(0, p[1], p[2], q) : p \in PairsOf(net), q \in 1..MaxDemand}

\* load vectors over the interfaces of net with loads 0..max
LoadsOf(net, max) == [NamesOf(net) -> 0..max]

-----------------------------------------------------------------------------
(* estimate_lambda_floor *)

\* "if (t + 1) % relax_every == 0 or t == len(obligation_stream) - 1" in
\* lambda_floor.py; "if (t + 1) % relax_every == 0" in admissibility_unified_V4.py
report_due(im, tt, K, n) ==
    IF im = "lambda_floor" THEN ((tt + 1) % K = 0) \/ (tt = n - 1)
    ELSE (tt + 1) % K = 0

\* the LambdaState recorded at index tt
lambda_state(net, im, tt, new_load, relaxed, act) ==
    LET itfs == interfaces(net)
        raw_cost == total_cost(new_load, itfs)
        residual_load == relaxed.current_load
        lambda_E == total_cost(residual_load, itfs)
    IN  IF im = "lambda_floor"
        THEN [time_step |-> tt, raw_load |-> new_load, raw_cost |-> raw_cost,
              residual_load |-> residual_load, lambda_E |-> lambda_E,
              lambda_sigma |-> residual_fraction(residual_load, itfs).worst,
              bottleneck |-> residual_fraction(residual_load, itfs).bn,
              action |-> act, relaxation_savings |-> raw_cost - lambda_E]
        ELSE [time_step |-> tt, raw_cost |-> raw_cost, lambda_E |-> lambda_E,
              lambda_sigma |-> v4_sigma(net, residual_load),
              bottleneck |-> min_headroom(residual_load, itfs).bn,
              action |-> act,
              relaxation_savings |-> relaxed.initial_cost - relaxed.current_cost,
              n_obligations |-> Len(relaxed.current)]

FloorIdle ==
    /\ pc = "idle" /\ t = 0 /\ stream_len = 0 /\ relax_every = 1
    /\ active_routed = <<>> /\ action = 0 /\ prev_load = EmptyLoad /\ history = <<>>
    /\ rejected = None
AdmitIdle == existing_load = EmptyLoad /\ obligation = None /\ routed = None
RelaxIdle == routed_in = <<>> /\ iterations = 0 /\ rs = None /\ lock_event = None
HistIdle ==
    /\ steps = <<>> /\ tc_interfaces = <<>> /\ L_prev = EmptyLoad /\ L_next = EmptyLoad
    /\ tc_fwd = 0 /\ tc_bwd = 0

CallIdle == args = <<>> /\ result = None
RaceIdle == shared_load = EmptyLoad /\ procs = <<>>

FloorVars == <<pc, t, stream_len, relax_every, active_routed, action, prev_load, history, rejected>>
AdmitVars == <<existing_load, obligation, routed>>
RelaxVars == <<routed_in, iterations, rs, lock_event>>
HistVars == <<steps, tc_interfaces, L_prev, L_next, tc_fwd, tc_bwd>>
ConfigVars == <<mode, impl, network>>
CallVars == <<args, result>>
RaceVars == <<shared_load, procs>>

InitFloor ==
    /\ mode = "floor"
    /\ impl \in Impls
    /\ network \in Networks
    /\ stream_len \in 0..MaxStream
    /\ relax_every \in 1..MaxK
    /\ pc = IF stream_len = 0 THEN "returned" ELSE "loop"
    /\ t = 0
    /\ active_routed = <<>>
    /\ action = 0
    /\ prev_load = EmptyLoad
    /\ history = <<>>
    /\ rejected = None
    /\ AdmitIdle /\ RelaxIdle /\ HistIdle /\ CallIdle /\ RaceIdle

\* Variant of Saturate with "continue" for "break": the rejected obligation is
\* skipped and the stream goes on
SaturateContinue(ob) ==
    /\ mode = "floor" /\ pc = "loop"
    /\ route_obligation(network, ob, compute_load_from_routed(active_routed), impl) = None
    /\ t' = t + 1
    /\ pc' = IF t + 1 = stream_len THEN "returned" ELSE "loop"
    /\ rejected' = Some(ob)
    /\ UNCHANGED <<stream_len, relax_every, active_routed, action, prev_load, history>>
    /\ UNCHANGED <<ConfigVars, CallVars, RaceVars, AdmitVars, RelaxVars, HistVars>>

\* one iteration of "for t, ob in enumerate(obligation_stream)" in which
\* route_obligation returns None: break, then return history
Saturate(ob) ==
    /\ mode = "floor" /\ pc = "loop"
    /\ route_obligation(network, ob, compute_load_from_routed(active_routed), impl) = None
    /\ pc' = "saturated"
    /\ rejected' = Some(ob)
    /\ UNCHANGED <<t, stream_len, relax_every, active_routed, action, prev_load, history>>
    /\ UNCHANGED <<ConfigVars, CallVars, RaceVars, AdmitVars, RelaxVars, HistVars>>

\* one iteration in which the obligation is routed: append, accumulate the
\* action, and, when a report is due, relax and record the LambdaState
AdmitNext(ob) ==
    /\ mode = "floor" /\ pc = "loop"
    /\ LET current_load == compute_load_from_routed(active_routed)
           r == route_obligation(network, ob, current_load, impl)
       IN  /\ r # None
           /\ LET appended == Append(active_routed, r[1])
                  new_load == compute_load_from_routed(appended)
                  act == action + transition_cost(prev_load, new_load, interfaces(network))
                  relaxed == relax_routing(network, appended, default_iterations(impl), impl)
              IN  /\ action' = act
                  /\ prev_load' = new_load
                  /\ IF report_due(impl, t, relax_every, stream_len)
                     THEN /\ active_routed' = relaxed.current
                          /\ history' = Append(history,
                                 lambda_state(network, impl, t, new_load, relaxed, act))
                     ELSE /\ active_routed' = appended
                          /\ history' = history
    /\ t' = t + 1
    /\ pc' = IF t + 1 = stream_len THEN "returned" ELSE "loop"
    /\ UNCHANGED <<stream_len, relax_every, rejected>>
    /\ UNCHANGED <<ConfigVars, CallVars, RaceVars, AdmitVars, RelaxVars, HistVars>>

NextFloor ==
    \/ (pc = "loop" /\ \E ob \in ObligationsOf(network, t) : Saturate(ob))
    \/ (pc = "loop" /\ \E ob \in ObligationsOf(network, t) : AdmitNext(ob))

SpecFloor == InitFloor /\ [][NextFloor]_vars

-----------------------------------------------------------------------------
(* run_full_chain_simulation (admissibility_unified_V4.py): the load is kept
   incrementally, with a budget on what a relaxation may move *)

\* sum(abs(relaxed_load[itf.name] - new_load[itf.name]) for itf in interfaces)
abs_diff(x, y) == IF x < y THEN y - x ELSE x - y

RECURSIVE load_change_upto(_, _, _, _)
load_change_upto(a, b, itfs, k) ==
    IF k = 0 THEN 0
    ELSE load_change_upto(a, b, itfs, k - 1)
         + abs_diff(Get(a, itfs[k].name), Get(b, itfs[k].name))

\* the budget test on a relaxation: "if load_change > reorg_budget" keeps the
\* unrelaxed routes and load, else the relaxed ones are taken
chain_budget(appended, r, new_load, relaxed, itfs, reorg_budget) ==
    IF load_change_upto(relaxed.current_load, new_load, itfs, Len(itfs)) > reorg_budget
    THEN [routed_obligations |-> <<r>> \o Front(appended), final_load |-> new_load,
          new_load |-> new_load]
    ELSE [routed_obligations |-> relaxed.current, final_load |-> relaxed.current_load,
          new_load |-> new_load]

\* one iteration of "for i, ob in enumerate(motif)" after route_obligation
\* returned r: the routed obligations and the load carried to the next one
chain_step(net, routed_obligations, current_load, r, reorg_budget) ==
    chain_budget(Append(routed_obligations, r), r,
                 add_contribution(current_load, r.path, r.obligation.demand),
                 relax_routing(net, Append(routed_obligations, r),
                               default_iterations("unified_V4"), "unified_V4"),
                 interfaces(net), reorg_budget)

\* reorg_budget: nothing may move, one rerouted unit may move, the default 5.0
ReorgBudgets == {0, 2, 5}

\* generate_motif draws source and target as two distinct nodes; demand is
\* max(hbar_unit, 1)
MotifObligationsOf(net, id) == {ob \in ObligationsOf(net, id) : ob.source # ob.target}

InitChain ==
    /\ mode = "chain"
    /\ impl = "unified_V4"
    /\ network \in Networks
    /\ stream_len \in 1..MaxStream
    /\ relax_every \in ReorgBudgets
    /\ pc = "loop"
    /\ t = 0
    /\ active_routed = <<>>
    /\ action = 0
    /\ prev_load = EmptyLoad
    /\ history = <<>>
    /\ rejected = None
    /\ existing_load = EmptyLoad /\ obligation = None /\ routed = None
    /\ RelaxIdle /\ HistIdle /\ CallIdle /\ RaceIdle

\* route_obligation returned None: break
ChainSaturate(ob) ==
    /\ mode = "chain" /\ pc = "loop"
    /\ route_obligation(network, ob, existing_load, impl) = None
    /\ pc' = "saturated"
    /\ rejected' = Some(ob)
    /\ UNCHANGED <<t, stream_len, relax_every, active_routed, action, prev_load, history>>
    /\ UNCHANGED <<ConfigVars, CallVars, RaceVars, AdmitVars, RelaxVars, HistVars>>

\* "current_load = final_load", "prev_load = new_load" and the action
ChainUpdate(c) ==
    /\ active_routed' = c.routed_obligations
    /\ existing_load' = c.final_load
    /\ action' = action + transition_cost(prev_load, c.new_load, interfaces(network))
    /\ prev_load' = c.new_load

\* the obligation is routed, relaxed within the budget and recorded
ChainNext(ob) ==
    /\ mode = "chain" /\ pc = "loop"
    /\ route_obligation(network, ob, existing_load, impl) # None
    /\ ChainUpdate(chain_step(network, active_routed, existing_load,
                              route_obligation(network, ob, existing_load, impl)[1],
                              relax_every))
    /\ t' = t + 1
    /\ pc' = IF t + 1 = stream_len THEN "returned" ELSE "loop"
    /\ UNCHANGED <<stream_len, relax_every, rejected, history, obligation, routed>>
    /\ UNCHANGED <<ConfigVars, CallVars, RaceVars, RelaxVars, HistVars>>

NextChain ==
    \/ (mode = "chain" /\ pc = "loop" /\
        \E ob \in MotifObligationsOf(network, t) : ChainSaturate(ob))
    \/ (mode = "chain" /\ pc = "loop" /\
        \E ob \in MotifObligationsOf(network, t) : ChainNext(ob))

SpecChain == InitChain /\ [][NextChain]_vars

-----------------------------------------------------------------------------
(* example_lambda_saturation: estimate_lambda_floor on a single edge *)

\* the interface of the single edge
I1_of(net) == net.edges[1].interface

\* obligations = [Obligation(id=i, source="A", target="B", demand=1)
\*                for i in range(N_max + 3)] with N_max = I1.max_n()
InitSaturation ==
    /\ mode = "floor"
    /\ impl \in Impls
    /\ network \in ScenarioNetworks
    /\ stream_len = max_n(I1_of(network), impl) + 3
    /\ relax_every \in 1..MaxK
    /\ pc = "loop"
    /\ t = 0
    /\ active_routed = <<>>
    /\ action = 0
    /\ prev_load = EmptyLoad
    /\ history = <<>>
    /\ rejected = None
    /\ AdmitIdle /\ RelaxIdle /\ HistIdle /\ CallIdle /\ RaceIdle

NextSaturation ==
    \/ (mode = "floor" /\ pc = "loop" /\ Saturate(Obligation(t, "A", "B", 1)))
    \/ (mode = "floor" /\ pc = "loop" /\ AdmitNext(Obligation(t, "A", "B", 1)))

SpecSaturation == InitSaturation /\ [][NextSaturation]_vars

-----------------------------------------------------------------------------
(* route_obligation called on its own against an externally given load *)

InitAdmit ==
    /\ mode = "admit"
    /\ impl \in Impls
    /\ network \in AdmitNetworks
    /\ existing_load \in LoadsOf(network, MaxLoad)
    /\ obligation \in {Some(ob) : ob \in CallObligationsOf(network)}
    /\ routed = None
    /\ FloorIdle /\ RelaxIdle /\ HistIdle /\ CallIdle /\ RaceIdle

\* routed = route_obligation(network, obligation, existing_load)
Route ==
    /\ mode = "admit" /\ pc = "idle"
    /\ routed' = route_obligation(network, obligation[1], existing_load, impl)
    /\ pc' = "decided"
    /\ UNCHANGED <<t, stream_len, relax_every, active_routed, action, prev_load, history, rejected>>
    /\ UNCHANGED <<ConfigVars, CallVars, RaceVars, existing_load, obligation, RelaxVars, HistVars>>

\* one more unit of external load on interface name, and the same obligation
\* routed again against the raised load
RaiseLoad(name) ==
    /\ mode = "admit" /\ pc = "decided"
    /\ existing_load[name] < MaxLoad
    /\ existing_load' = DictAdd(existing_load, name, 1)
    /\ routed' = route_obligation(network, obligation[1], existing_load', impl)
    /\ UNCHANGED FloorVars
    /\ UNCHANGED <<ConfigVars, CallVars, RaceVars, obligation, RelaxVars, HistVars>>

NextAdmit ==
    \/ Route
    \/ (mode = "admit" /\ \E name \in NamesOf(network) : RaiseLoad(name))

SpecAdmit == InitAdmit /\ [][NextAdmit]_vars

-----------------------------------------------------------------------------
(* relax_routing called on its own, one obligation of a pass per step *)

\* an obligation together with any one of its candidate paths
RoutedChoices(net, id, im) ==
    UNION {{RoutedObligation(ob, candidates(net, ob, im)[k]) :
                k \in 1..Len(candidates(net, ob, im))} : ob \in ObligationsOf(net, id)}

\* lists of n routed obligations with ids 0..n-1
RECURSIVE RoutedLists(_, _, _)
RoutedLists(net, n, im) ==
    IF n = 0 THEN {<<>>}
    ELSE {Append(l, r) : l \in RoutedLists(net, n - 1, im), r \in RoutedChoices(net, n - 1, im)}

InitRelax ==
    /\ mode = "relax"
    /\ impl \in Impls
    /\ network \in Networks
    /\ iterations \in 0..MaxIter
    /\ routed_in \in UNION {RoutedLists(network, n, impl) : n \in 0..MaxRouted}
    /\ rs = Some(relax_start(network, routed_in, relax_cap(impl, iterations)))
    /\ lock_event = None
    /\ FloorIdle /\ AdmitIdle /\ HistIdle /\ CallIdle /\ RaceIdle

\* the body of the inner loop for current[i]
RelaxInner ==
    /\ mode = "relax" /\ ~rs[1].done /\ rs[1].i <= Len(rs[1].current)
    /\ rs' = Some(relax_inner(network, rs[1], impl))
    /\ routed_in' = caller_routed(routed_in, rs'[1])
    /\ UNCHANGED <<ConfigVars, CallVars, RaceVars, FloorVars, AdmitVars, HistVars, iterations, lock_event>>

\* the end of a pass: break, or start the next pass
RelaxPassEnd ==
    /\ mode = "relax" /\ ~rs[1].done /\ rs[1].i > Len(rs[1].current)
    /\ rs' = Some(relax_pass_end(rs[1], relax_cap(impl, iterations)))
    /\ routed_in' = caller_routed(routed_in, rs'[1])
    /\ UNCHANGED <<ConfigVars, CallVars, RaceVars, FloorVars, AdmitVars, HistVars, iterations, lock_event>>

\* attempt_record_undo: rejected whether or not the obligation is recorded
attempt_record_undo(rlist, ob) ==
    LET found == \E k \in 1..Len(rlist) : rlist[k].obligation.id = ob.id
    IN  IF ~found
        THEN [step |-> ob.id, obligation_id |-> ob.id, undo_attempted |-> TRUE,
              undo_rejected |-> TRUE, reason |-> "Obligation not found (never recorded)"]
        ELSE [step |-> ob.id, obligation_id |-> ob.id, undo_attempted |-> TRUE,
              undo_rejected |-> TRUE,
              reason |-> "Record lock-in: irreversible commitment (arrow of time)"]

NextRelax == RelaxInner \/ RelaxPassEnd

SpecRelax == InitRelax /\ [][NextRelax]_vars

-----------------------------------------------------------------------------
(* attempt_record_undo on a list of routed obligations *)

InitUndo ==
    /\ mode = "undo"
    /\ impl = "unified_V4"
    /\ network \in Networks
    /\ routed_in \in UNION {RoutedLists(network, n, impl) : n \in 0..MaxRouted}
    /\ iterations = 0 /\ rs = None /\ lock_event = None
    /\ FloorIdle /\ AdmitIdle /\ HistIdle /\ CallIdle /\ RaceIdle

AttemptUndo(ob) ==
    /\ mode = "undo" /\ lock_event = None
    /\ lock_event' = Some(attempt_record_undo(routed_in, ob))
    /\ UNCHANGED <<ConfigVars, CallVars, RaceVars, FloorVars, AdmitVars, HistVars, routed_in, iterations, rs>>

NextUndo ==
    mode = "undo" /\ lock_event = None /\
    \E id \in 0..MaxRouted : \E ob \in ObligationsOf(network, id) : AttemptUndo(ob)

-----------------------------------------------------------------------------
(* History.append (accumulated_cost.py) *)

\* History._make_step: the step with its admissibility analysis
make_step(itfs, load, time, t_cost) ==
    LET m == min_headroom(load, itfs)
    IN  [load |-> load, time |-> time, transition_cost |-> t_cost,
         is_admissible |-> Less(EPS_SLACK, m.worst_h),
         min_headroom |-> m.worst_h, bottleneck |-> m.bn]

\* Variant of History.append that records the step cost as the time
History_append_reset(itfs, hsteps, load) ==
    IF hsteps = <<>> THEN Append(hsteps, make_step(itfs, load, 0, 0))
    ELSE LET prev == hsteps[Len(hsteps)]
             t_cost == transition_cost(prev.load, load, itfs)
         IN  Append(hsteps, make_step(itfs, load, t_cost, t_cost))

\* History.append(load): the steps after the call
History_append(itfs, hsteps, load) ==
    IF hsteps = <<>> THEN Append(hsteps, make_step(itfs, load, 0, 0))
    ELSE LET prev == hsteps[Len(hsteps)]
             t_cost == transition_cost(prev.load, load, itfs)
         IN  Append(hsteps, make_step(itfs, load, prev.time + t_cost, t_cost))

\* history_cost(loads, interfaces): 0.0 for fewer than two loads, else
\* sum(transition_cost(loads[i], loads[i+1], interfaces) for i in range(len - 1))
RECURSIVE history_cost_upto(_, _, _)
history_cost_upto(loads, itfs, n) ==
    IF n = 0 THEN 0
    ELSE history_cost_upto(loads, itfs, n - 1) + transition_cost(loads[n], loads[n + 1], itfs)

history_cost(loads, itfs) ==
    IF Len(loads) < 2 THEN 0 ELSE history_cost_upto(loads, itfs, Len(loads) - 1)

\* History.action
History_action(hsteps) == IF hsteps = <<>> THEN 0 ELSE hsteps[Len(hsteps)].time

\* a History is built over the interfaces of a network with at most two interfaces
HistNetworks == {SaturationNet, RoutingNet}

InitHist ==
    /\ mode = "history"
    /\ impl \in {"accumulated_cost", "unified_V4"}
    /\ network \in HistNetworks
    /\ tc_interfaces = interfaces(network)
    /\ steps = <<>>
    /\ L_prev = EmptyLoad /\ L_next = EmptyLoad /\ tc_fwd = 0 /\ tc_bwd = 0
    /\ FloorIdle /\ AdmitIdle /\ RelaxIdle /\ CallIdle /\ RaceIdle

HistoryAppend(load) ==
    /\ mode = "history" /\ Len(steps) < MaxSteps
    /\ steps' = History_append(tc_interfaces, steps, load)
    /\ UNCHANGED <<ConfigVars, CallVars, RaceVars, FloorVars, AdmitVars, RelaxVars,
                   tc_interfaces, L_prev, L_next, tc_fwd, tc_bwd>>

NextHist == mode = "history" /\ \E load \in LoadsOf(network, MaxHistLoad) : HistoryAppend(load)

SpecHist == InitHist /\ [][NextHist]_vars

-----------------------------------------------------------------------------
(* transition_cost called on its own *)

\* the modules that define transition_cost
CostImpls == {"lambda_floor", "unified_V4", "accumulated_cost"}

\* A == B on LoadVectors. accumulated_cost.py and admissibility_unified_V4.py
\* define __eq__: equal on every key of either, a missing key reading 0.
\* lambda_floor.py leaves the dataclass equality: the loads dicts are equal.
load_eq(a, b, im) ==
    IF im = "lambda_floor" THEN a = b
    ELSE \A k \in (DOMAIN a) \cup (DOMAIN b) : Get(a, k) = Get(b, k)

\* LoadVectors over the interface names of net: any subset of the names as keys
DictsOf(net, max) == UNION {[S -> 0..max] : S \in SUBSET NamesOf(net)}

InitCost ==
    /\ mode = "cost"
    /\ impl \in CostImpls
    /\ network \in Networks
    /\ tc_interfaces \in {SubSeq(interfaces(network), 1, k) : k \in 0..Len(interfaces(network))}
    /\ pc = "idle"
    /\ steps = <<>>
    /\ L_prev = EmptyLoad /\ L_next = EmptyLoad /\ tc_fwd = 0 /\ tc_bwd = 0
    /\ t = 0 /\ stream_len = 0 /\ relax_every = 1
    /\ active_routed = <<>> /\ action = 0 /\ prev_load = EmptyLoad /\ history = <<>>
    /\ rejected = None
    /\ AdmitIdle /\ RelaxIdle /\ CallIdle /\ RaceIdle

\* forward = transition_cost(A, B, interfaces); backward = transition_cost(B, A, interfaces)
TransitionCost(a, b) ==
    /\ mode = "cost" /\ pc = "idle"
    /\ L_prev' = a /\ L_next' = b
    /\ tc_fwd' = transition_cost(a, b, tc_interfaces)
    /\ tc_bwd' = transition_cost(b, a, tc_interfaces)
    /\ pc' = "called"
    /\ UNCHANGED <<t, stream_len, relax_every, active_routed, action, prev_load, history, rejected>>
    /\ UNCHANGED <<ConfigVars, CallVars, RaceVars, AdmitVars, RelaxVars, steps, tc_interfaces>>

NextCost ==
    mode = "cost" /\ pc = "idle" /\
    \E a \in DictsOf(network, MaxHistLoad) : \E b \in DictsOf(network, MaxHistLoad) :
        TransitionCost(a, b)

SpecCost == InitCost /\ [][NextCost]_vars

-----------------------------------------------------------------------------
(* distance called on its own: distance_matrix / test_metric_axioms *)

InitMetric ==
    /\ mode = "metric"
    /\ impl \in MetricImpls
    /\ network \in MetricNetworks
    /\ args = <<>> /\ result = None
    /\ FloorIdle /\ AdmitIdle /\ RelaxIdle /\ HistIdle /\ RaceIdle

\* the distances the identity, symmetry and triangle tests read for (u, v, w)
Distance(u, v, w) ==
    /\ mode = "metric" /\ result = None
    /\ args' = <<u, v, w>>
    /\ result' = Some([d_uu |-> distance_matrix(network, impl)[u][u],
                       d_uv |-> distance_matrix(network, impl)[u][v],
                       d_vu |-> distance_matrix(network, impl)[v][u],
                       d_vw |-> distance_matrix(network, impl)[v][w],
                       d_uw |-> distance_matrix(network, impl)[u][w]])
    /\ UNCHANGED <<ConfigVars, RaceVars, FloorVars, AdmitVars, RelaxVars, HistVars>>

NextMetric ==
    mode = "metric" /\ result = None /\
    \E u \in NodesOf(network) : \E v \in NodesOf(network) : \E w \in NodesOf(network) :
        Distance(u, v, w)

SpecMetric == InitMetric /\ [][NextMetric]_vars

-----------------------------------------------------------------------------
(* Interface constructed and used on its own *)

\* no Network constructed yet
NoNetwork == [nodes |-> <<>>, edges |-> <<>>]

\* the interfaces the constructor is called for
ConstructInterfaces == ConfigInterfaces \cup {I1_of(WideNet)}

InitInterface ==
    /\ mode = "interface"
    /\ impl \in Impls
    /\ network = NoNetwork
    /\ args = <<>> /\ result = None
    /\ FloorIdle /\ AdmitIdle /\ RelaxIdle /\ HistIdle /\ RaceIdle

\* Interface(name, capacity, epsilon, eta): the dataclass constructor stores the
\* fields; there is no __post_init__ and no check
Construct(itf) ==
    /\ mode = "interface" /\ pc = "idle"
    /\ args' = <<itf>>
    /\ pc' = "constructed"
    /\ UNCHANGED <<ConfigVars, result, RaceVars, AdmitVars, RelaxVars, HistVars>>
    /\ UNCHANGED <<t, stream_len, relax_every, active_routed, action, prev_load, history, rejected>>

\* itf.max_n()
MaxN ==
    /\ mode = "interface" /\ pc = "constructed"
    /\ result' = Some([op |-> "max_n", value |-> max_n(args[1], impl)])
    /\ pc' = "called"
    /\ UNCHANGED <<ConfigVars, args, RaceVars, AdmitVars, RelaxVars, HistVars>>
    /\ UNCHANGED <<t, stream_len, relax_every, active_routed, action, prev_load, history, rejected>>

\* itf.cost and itf.headroom at two consecutive loads n and n + 1
CostHeadroom(n) ==
    /\ mode = "interface" /\ pc = "constructed"
    /\ result' = Some([op |-> "cost", n |-> n,
                       cost |-> cost(args[1], n),
                       cost_next |-> cost(args[1], n + 1),
                       headroom |-> headroom(args[1], n),
                       headroom_next |-> headroom(args[1], n + 1)])
    /\ pc' = "called"
    /\ UNCHANGED <<ConfigVars, args, RaceVars, AdmitVars, RelaxVars, HistVars>>
    /\ UNCHANGED <<t, stream_len, relax_every, active_routed, action, prev_load, history, rejected>>

\* Network(nodes=["A", "B"], edges=[Edge("A", "B", itf)])
BuildNetwork ==
    /\ mode = "interface" /\ pc = "constructed"
    /\ args[1] \in ConfigInterfaces
    /\ network' = UnitNet(args[1])
    /\ pc' = "network"
    /\ UNCHANGED <<mode, impl, CallVars, RaceVars, AdmitVars, RelaxVars, HistVars>>
    /\ UNCHANGED <<t, stream_len, relax_every, active_routed, action, prev_load, history, rejected>>

\* route_obligation(network, Obligation(0, "A", "B", 1), LoadVector.empty())
RouteOnNetwork ==
    /\ mode = "interface" /\ pc = "network"
    /\ result' = Some([op |-> "route",
                       routed |-> route_obligation(network, Obligation(0, "A", "B", 1),
                                                   EmptyLoad, impl)])
    /\ pc' = "called"
    /\ UNCHANGED <<ConfigVars, args, RaceVars, AdmitVars, RelaxVars, HistVars>>
    /\ UNCHANGED <<t, stream_len, relax_every, active_routed, action, prev_load, history, rejected>>

NextInterface ==
    \/ (mode = "interface" /\ pc = "idle" /\ \E itf \in ConstructInterfaces : Construct(itf))
    \/ MaxN
    \/ (mode = "interface" /\ pc = "constructed" /\ \E n \in 0..MaxCostLoad : CostHeadroom(n))
    \/ BuildNetwork
    \/ RouteOnNetwork

SpecInterface == InitInterface /\ [][NextInterface]_vars

-----------------------------------------------------------------------------
(* Two admissions on one shared load: the loop body of route_all_obligations
   (result = route_obligation(network, ob, load); load.loads[name] =
   load.loads.get(name, 0) + contrib * ob.demand) run by two callers, either
   step by step (mode "race") or one whole body at a time (mode "serial") *)

Procs == {1, 2}

\* networks with one interface name, so that the update loop has one iteration
RaceNetworks == {SaturationNet, ChainNet}

\* the loads route_all_obligations starts from: admissible initial_load values
AdmissibleLoads(net) ==
    {l \in LoadsOf(net, MaxLoad) : is_admissible(l, interfaces(net))}

proc_start(ob) ==
    [pc |-> "read", ob |-> ob, load |-> None, routed |-> None, got |-> 0, stale |-> FALSE]

\* the one (name, contrib) item of result.path.load_contribution().items()
item_name(r) == CHOOSE name \in DOMAIN load_contribution(r.path) : TRUE
item_contrib(r) == load_contribution(r.path)[item_name(r)]

\* load.loads[name] = v
DictSet(d, name, v) == [k \in (DOMAIN d) \cup {name} |-> IF k = name THEN v ELSE d[k]]

\* where a caller goes after route_obligation returned r
after_decide(r) ==
    IF r = None THEN "rejected"
    ELSE IF load_contribution(r[1].path) = EmptyLoad THEN "done" ELSE "get"

InitRace ==
    /\ mode \in {"race", "serial"}
    /\ impl \in Impls
    /\ network \in RaceNetworks
    /\ shared_load \in AdmissibleLoads(network)
    /\ procs \in [Procs -> {proc_start(ob) : ob \in ObligationsOf(network, 0)}]
    /\ FloorIdle /\ AdmitIdle /\ RelaxIdle /\ HistIdle /\ CallIdle

\* the caller reads the current load
ReadLoad(p) ==
    /\ mode = "race" /\ procs[p].pc = "read"
    /\ procs' = [procs EXCEPT ![p].load = Some(shared_load), ![p].pc = "decide"]
    /\ UNCHANGED <<ConfigVars, CallVars, shared_load, FloorVars, AdmitVars, RelaxVars, HistVars>>

\* result = route_obligation(network, ob, load) on the load it read
Decide(p) ==
    /\ mode = "race" /\ procs[p].pc = "decide"
    /\ LET r == route_obligation(network, procs[p].ob, procs[p].load[1], impl)
       IN  procs' = [procs EXCEPT ![p].routed = r, ![p].pc = after_decide(r)]
    /\ UNCHANGED <<ConfigVars, CallVars, shared_load, FloorVars, AdmitVars, RelaxVars, HistVars>>

\* load.loads.get(name, 0)
WriteGet(p) ==
    /\ mode = "race" /\ procs[p].pc = "get"
    /\ procs' = [procs EXCEPT ![p].got = Get(shared_load, item_name(procs[p].routed[1])),
                              ![p].stale = (shared_load # procs[p].load[1]),
                              ![p].pc = "set"]
    /\ UNCHANGED <<ConfigVars, CallVars, shared_load, FloorVars, AdmitVars, RelaxVars, HistVars>>

\* load.loads[name] = <the value got> + contrib * ob.demand
WriteSet(p) ==
    /\ mode = "race" /\ procs[p].pc = "set"
    /\ shared_load' = DictSet(shared_load, item_name(procs[p].routed[1]),
                              procs[p].got + item_contrib(procs[p].routed[1]) * procs[p].ob.demand)
    /\ procs' = [procs EXCEPT ![p].stale = @ \/ (shared_load # procs[p].load[1]),
                              ![p].pc = "done"]
    /\ UNCHANGED <<ConfigVars, CallVars, FloorVars, AdmitVars, RelaxVars, HistVars>>

\* Variant of Admit that decides on the empty load instead of the current one
AdmitStale(p) ==
    /\ mode = "serial" /\ procs[p].pc = "read"
    /\ LET r == route_obligation(network, procs[p].ob, EmptyLoad, impl)
       IN  /\ procs' = [procs EXCEPT ![p].load = Some(shared_load), ![p].routed = r,
                                     ![p].pc = IF r = None THEN "rejected" ELSE "done"]
           /\ shared_load' = IF r = None THEN shared_load
                             ELSE add_contribution(shared_load, r[1].path, procs[p].ob.demand)
    /\ UNCHANGED <<ConfigVars, CallVars, FloorVars, AdmitVars, RelaxVars, HistVars>>

\* one whole loop body, run by the single writer: read, decide and write
Admit(p) ==
    /\ mode = "serial" /\ procs[p].pc = "read"
    /\ LET r == route_obligation(network, procs[p].ob, shared_load, impl)
       IN  /\ procs' = [procs EXCEPT ![p].load = Some(shared_load), ![p].routed = r,
                                     ![p].pc = IF r = None THEN "rejected" ELSE "done"]
           /\ shared_load' = IF r = None THEN shared_load
                             ELSE add_contribution(shared_load, r[1].path, procs[p].ob.demand)
    /\ UNCHANGED <<ConfigVars, CallVars, FloorVars, AdmitVars, RelaxVars, HistVars>>

NextRace ==
    \/ (mode = "race" /\ \E p \in Procs : ReadLoad(p))
    \/ (mode = "race" /\ \E p \in Procs : Decide(p))
    \/ (mode = "race" /\ \E p \in Procs : WriteGet(p))
    \/ (mode = "race" /\ \E p \in Procs : WriteSet(p))
    \/ (mode = "serial" /\ \E p \in Procs : Admit(p))

SpecRace == InitRace /\ [][NextRace]_vars

-----------------------------------------------------------------------------
(* Path search called on its own *)

SearchImpls == {"lambda_floor", "unified_V4", "routing_engine_v1"}

InitSearch ==
    /\ mode = "search"
    /\ impl \in SearchImpls
    /\ network \in MetricNetworks
    /\ args = <<>> /\ result = None
    /\ FloorIdle /\ AdmitIdle /\ RelaxIdle /\ HistIdle /\ RaceIdle

\* find_all_paths(network, source, target, max_length, max_paths)
FindPaths(source, target, max_length, max_paths) ==
    /\ mode = "search" /\ result = None
    /\ args' = [source |-> source, target |-> target,
                max_length |-> max_length, max_paths |-> max_paths]
    /\ result' = Some(search(network, source, target, max_length, max_paths, impl))
    /\ UNCHANGED <<ConfigVars, RaceVars, FloorVars, AdmitVars, RelaxVars, HistVars>>

NextSearch ==
    mode = "search" /\ result = None /\
    \E source \in NodesOf(network) : \E target \in NodesOf(network) :
        \E max_length \in 0..MaxSearchLength : \E max_paths \in 0..MaxSearchPaths :
            FindPaths(source, target, max_length, max_paths)

SpecSearch == InitSearch /\ [][NextSearch]_vars

-----------------------------------------------------------------------------
(* best_routing and find_k_shortest_paths (routing_engine_v1.py) called on
   their own *)

\* every simple path from source to target: the depth-first search with limits
\* no path of the network reaches
all_simple_paths(net, source, target) ==
    find_all_paths(net, source, target, Len(net.nodes),
                   Len(net.nodes) * Len(net.nodes) * Len(net.nodes))

\* the largest load that leaves itf admissible
full_load(itf) ==
    CHOOSE n \in 0..MAX_LOAD_PER_INTERFACE :
        /\ headroom(itf, n) > EPS_SLACK
        /\ ~(headroom(itf, n + 1) > EPS_SLACK)

\* the load that fills every interface off the path p
detour_load(net, p) ==
    LET on == {p.edges[k].interface.name : k \in 1..Len(p.edges)}
        off == {net.edges[k].interface : k \in 1..Len(net.edges)}
    IN  [name \in {itf.name : itf \in off} \ on |->
            full_load(CHOOSE itf \in off : itf.name = name)]

\* existing loads: none, or every interface full except along one route
\* from the first node to the last
ExistingLoads(net) ==
    LET paths == all_simple_paths(net, net.nodes[1], net.nodes[Len(net.nodes)])
    IN  {EmptyLoad} \cup {detour_load(net, paths[k]) : k \in 1..Len(paths)}

\* the k arguments of find_k_shortest_paths: 1, its default, and the default
\* of best_routing (which best_routing is called with)
RoutingKs == {1, 5, BEST_ROUTING_K}

InitBest ==
    /\ mode = "best"
    /\ impl = "routing_engine_v1"
    /\ network \in MetricNetworks
    /\ existing_load \in ExistingLoads(network)
    /\ obligation = None /\ routed = None
    /\ args = <<>> /\ result = None
    /\ FloorIdle /\ RelaxIdle /\ HistIdle /\ RaceIdle

\* result = best_routing(network, source, target, existing_load, k)
BestRouting(source, target, k) ==
    /\ mode = "best" /\ result = None
    /\ args' = [op |-> "best_routing", source |-> source, target |-> target, k |-> k]
    /\ result' = Some([best |-> best_routing(network, source, target, existing_load, k),
                       paths |-> <<>>])
    /\ UNCHANGED <<ConfigVars, RaceVars, FloorVars, AdmitVars, RelaxVars, HistVars>>

\* result = find_k_shortest_paths(network, source, target, k)
KShortestPaths(source, target, k) ==
    /\ mode = "best" /\ result = None
    /\ args' = [op |-> "find_k_shortest_paths", source |-> source, target |-> target, k |-> k]
    /\ result' = Some([best |-> None,
                       paths |-> find_k_shortest_paths(network, source, target, k)])
    /\ UNCHANGED <<ConfigVars, RaceVars, FloorVars, AdmitVars, RelaxVars, HistVars>>

NextBest ==
    \/ (mode = "best" /\ result = None /\
        \E source \in NodesOf(network) : \E target \in NodesOf(network) :
            BestRouting(source, target, BEST_ROUTING_K))
    \/ (mode = "best" /\ result = None /\ existing_load = EmptyLoad /\
        \E source \in NodesOf(network) : \E target \in NodesOf(network) :
            \E k \in RoutingKs : KShortestPaths(source, target, k))

SpecBest == InitBest /\ [][NextBest]_vars

-----------------------------------------------------------------------------
(* LoadVector arithmetic, equality and hash (accumulated_cost.py,
   admissibility_unified_V4.py) *)

\* LoadVector.__add__ / __sub__: every key of either operand
load_add(a, b) == [k \in (DOMAIN a) \cup (DOMAIN b) |-> Get(a, k) + Get(b, k)]
load_sub(a, b) == [k \in (DOMAIN a) \cup (DOMAIN b) |-> Get(a, k) - Get(b, k)]

\* LoadVector.__hash__: hash(tuple(sorted(self.loads.items()))), the hash of
\* the stored (name, load) pairs, explicit zeros included
load_hash(a) == {<<k, a[k]>> : k \in DOMAIN a}

\* the modules whose LoadVector defines __eq__ and __hash__
HashImpls == {"accumulated_cost", "unified_V4"}

InitLoad ==
    /\ mode = "load"
    /\ impl \in HashImpls
    /\ network \in HistNetworks
    /\ tc_interfaces = interfaces(network)
    /\ steps = <<>>
    /\ L_prev = EmptyLoad /\ L_next = EmptyLoad /\ tc_fwd = 0 /\ tc_bwd = 0
    /\ FloorIdle /\ AdmitIdle /\ RelaxIdle /\ CallIdle /\ RaceIdle

\* back = (L + P) - P, with the hashes of L, P and back
AddSub(L, P) ==
    /\ mode = "load" /\ result = None
    /\ L_prev' = L /\ L_next' = P
    /\ args' = [op |-> "add_sub"]
    /\ result' = Some([back |-> load_sub(load_add(L, P), P),
                       known |-> FALSE])
    /\ UNCHANGED <<ConfigVars, RaceVars, FloorVars, AdmitVars, RelaxVars,
                   steps, tc_interfaces, tc_fwd, tc_bwd>>

\* find_minimum_action_path: visited = {hash(L_start): 0.0}, then
\* "h = hash(neighbor); if h not in visited" for a neighbor, which
\* admissible_neighbors builds with a key for every interface
VisitedLookup(L_start, neighbor) ==
    /\ mode = "load" /\ result = None
    /\ L_prev' = L_start /\ L_next' = neighbor
    /\ args' = [op |-> "visited"]
    /\ result' = Some([back |-> EmptyLoad,
                       known |-> load_hash(neighbor) \in {load_hash(L_start)}])
    /\ UNCHANGED <<ConfigVars, RaceVars, FloorVars, AdmitVars, RelaxVars,
                   steps, tc_interfaces, tc_fwd, tc_bwd>>

NextLoad ==
    \/ (mode = "load" /\ result = None /\
        \E L \in DictsOf(network, MaxHistLoad) : \E P \in DictsOf(network, MaxHistLoad) :
            AddSub(L, P))
    \/ (mode = "load" /\ result = None /\
        \E L \in DictsOf(network, MaxHistLoad) : \E P \in LoadsOf(network, MaxHistLoad) :
            VisitedLookup(L, P))

SpecLoad == InitLoad /\ [][NextLoad]_vars

-----------------------------------------------------------------------------
(* Specifications that exercise several entry points *)

SpecAdmitFloor == (InitAdmit \/ InitFloor) /\ [][NextAdmit \/ NextFloor]_vars

SpecFloorRelax ==
    (InitFloor \/ InitRelax \/ InitUndo) /\ [][NextFloor \/ NextRelax \/ NextUndo]_vars

SpecAdmitRelaxFloor ==
    (InitAdmit \/ InitRelax \/ InitFloor) /\ [][NextAdmit \/ NextRelax \/ NextFloor]_vars

SpecRelaxFloorChain ==
    (InitRelax \/ InitFloor \/ InitChain) /\ [][NextRelax \/ NextFloor \/ NextChain]_vars

SpecHistFloor == (InitHist \/ InitFloor) /\ [][NextHist \/ NextFloor]_vars

-----------------------------------------------------------------------------
(* Properties *)

\* headroom strictly above the slack margin on every interface of net
StrictlyWithinCapacity(load, net) ==
    \A k \in 1..Len(interfaces(net)) :
        LET itf == interfaces(net)[k]
        IN  itf.capacity - cost(itf, Get(load, itf.name)) > EPS_SLACK

\* the load route_obligation tests for candidate path p
TestLoad(p) == add_contribution(existing_load, p, obligation[1].demand)

\* the candidate paths of the obligation being routed
Candidates == candidates(network, obligation[1], impl)

\* C1: whenever route_obligation accepts, the resulting load has headroom
\* strictly above the slack margin on every interface (never zero, never
\* <= slack), and the active load of estimate_lambda_floor, which starts empty
\* and changes by admissions and relaxations only, is admissible in every state.
AdmissibilitySafety ==
    /\ (mode = "admit" /\ pc = "decided" /\ routed # None)
          => StrictlyWithinCapacity(TestLoad(routed[1].path), network)
    /\ mode = "floor"
          => StrictlyWithinCapacity(compute_load_from_routed(active_routed), network)

\* a run that has admitted and relaxed, with an interface one unit below the
\* load of exactly zero headroom
AdmissibilitySafetyWitness ==
    /\ mode = "floor" /\ Len(active_routed) >= 2 /\ Len(history) >= 1
    /\ \E k \in 1..Len(interfaces(network)) :
          LET itf == interfaces(network)[k]
              n == Get(compute_load_from_routed(active_routed), itf.name)
          IN  n >= 1 /\ headroom(itf, n + 1) = 0

\* the path returned is a candidate, admissible, and of least total cost among
\* the admissible candidates
MinCostSelected ==
    (mode = "admit" /\ pc = "decided" /\ routed # None) =>
        LET itfs == interfaces(network)
            chosen == TestLoad(routed[1].path)
        IN  /\ routed[1].obligation = obligation[1]
            /\ \E k \in 1..Len(Candidates) : Candidates[k] = routed[1].path
            /\ is_admissible(chosen, itfs)
            /\ \A k \in 1..Len(Candidates) :
                  is_admissible(TestLoad(Candidates[k]), itfs)
                      => total_cost(TestLoad(Candidates[k]), itfs) >= total_cost(chosen, itfs)

\* a raise of the external load after which the path selected before is
\* inadmissible, or dearer than an admissible candidate, selects another path
SwitchOnRaise ==
    (mode = "admit" /\ pc = "decided" /\ pc' = "decided" /\ routed # None) =>
        LET itfs == interfaces(network)
            old == routed[1].path
            old_load == add_contribution(existing_load', old, obligation[1].demand)
            worse ==
                \/ ~is_admissible(old_load, itfs)
                \/ \E k \in 1..Len(Candidates) :
                      LET l == add_contribution(existing_load', Candidates[k], obligation[1].demand)
                      IN  is_admissible(l, itfs) /\ total_cost(l, itfs) < total_cost(old_load, itfs)
        IN  worse => (routed' = None \/ routed'[1].path # old)

\* C2: route_obligation returns an admissible candidate path of minimum total
\* cost (no admissible candidate is strictly cheaper), and when the external
\* load is raised so that the selected route becomes inadmissible or more
\* expensive than an alternate, the selection leaves it.
MinimumCostSelection == [](MinCostSelected) /\ [][SwitchOnRaise]_vars

\* the route selected against no external load is still admissible but has
\* become more expensive, and another route is selected
MinimumCostSelectionWitness ==
    /\ mode = "admit" /\ pc = "decided" /\ routed # None
    /\ LET itfs == interfaces(network)
           base == route_obligation(network, obligation[1],
                                    [n \in NamesOf(network) |-> 0], impl)
       IN  /\ base # None
           /\ base[1].path # routed[1].path
           /\ is_admissible(TestLoad(base[1].path), itfs)
           /\ total_cost(TestLoad(base[1].path), itfs) > total_cost(TestLoad(routed[1].path), itfs)

\* C3: route_obligation returns None if and only if no candidate path is
\* admissible against the current load; with an admissible candidate it
\* returns a routed obligation.
NoneIffNoAdmissibleCandidate ==
    (mode = "admit" /\ pc = "decided") =>
        (routed = None <=>
            \A k \in 1..Len(Candidates) :
                ~StrictlyWithinCapacity(TestLoad(Candidates[k]), network))

\* a rejection with several candidates, and the load itself admissible
NoneIffNoAdmissibleCandidateWitness ==
    /\ mode = "admit" /\ pc = "decided" /\ routed = None
    /\ Len(Candidates) >= 2
    /\ StrictlyWithinCapacity(existing_load, network)

\* the cost never rises at a swap
RelaxStepNonIncreasing ==
    (mode = "relax" /\ rs' # rs) => rs'[1].current_cost <= rs[1].current_cost

\* at every point of relax_routing the load costs no more than the input load,
\* and the savings are not negative
RelaxCostBounded ==
    mode = "relax" =>
        LET itfs == interfaces(network)
            before == total_cost(compute_load_from_routed(routed_in), itfs)
        IN  /\ total_cost(rs[1].current_load, itfs) <= before + EPS_COST
            /\ total_cost(compute_load_from_routed(rs[1].current), itfs) <= before + EPS_COST
            /\ rs[1].initial_cost - rs[1].current_cost >= 0

\* C4: for any list of routed obligations and any iteration cap, the load
\* relax_routing returns costs at most the input load's cost plus EPS_COST, the
\* savings initial_cost - current_cost are >= 0, and no swap raises the cost.
RelaxationNonIncreasing == [](RelaxCostBounded) /\ [][RelaxStepNonIncreasing]_vars

\* a call that returned after a second pass with a strictly cheaper load
RelaxationNonIncreasingWitness ==
    /\ mode = "relax" /\ rs[1].done /\ rs[1].pass >= 2
    /\ rs[1].current_cost < rs[1].initial_cost
    /\ rs[1].current # routed_in

\* C5: over the reports of one estimate_lambda_floor run, lambda_E (the total
\* cost after relaxation) never decreases from a report to the next.
ResidualCostNonDecreasing ==
    mode = "floor" =>
        \A i \in 1..(Len(history) - 1) : history[i].lambda_E <= history[i + 1].lambda_E

\* the floor estimator's accumulated action never decreases at a step
ActionStepNonDecreasing == mode = "floor" => action' >= action

\* time never decreases along the steps of a History, nor action along the reports
TimeNonDecreasing ==
    /\ \A i \in 1..(Len(steps) - 1) : steps[i + 1].time >= steps[i].time
    /\ \A i \in 1..(Len(history) - 1) : history[i + 1].action >= history[i].action

\* C6: after any sequence of History.append calls, loads going up or down,
\* each step's time (cumulative cost) is >= that of the step before, and the
\* action reported by estimate_lambda_floor never decreases from report to report.
CumulativeCostNonDecreasing == [](TimeNonDecreasing) /\ [][ActionStepNonDecreasing]_vars

\* three appends whose second lowers a load, with time still growing
CumulativeCostNonDecreasingWitness ==
    /\ mode = "history" /\ Len(steps) = 3
    /\ \E n \in NamesOf(network) : Get(steps[2].load, n) < Get(steps[1].load, n)
    /\ steps[1].time < steps[2].time /\ steps[2].time < steps[3].time

\* C7: for all loads A, B and any interface list, transition_cost(A, B) equals
\* transition_cost(B, A), is >= 0, and is 0 if and only if A == B.
TransitionCostMetric ==
    (mode = "cost" /\ pc = "called") =>
        /\ tc_fwd = tc_bwd
        /\ tc_fwd >= 0
        /\ (tc_fwd = 0 <=> load_eq(L_prev, L_next, impl))

\* path leads from s to d along its edges
path_connects(path, s, d) ==
    /\ Len(path.nodes) = Len(path.edges) + 1
    /\ path.nodes[1] = s /\ path.nodes[Len(path.nodes)] = d
    /\ \A k \in 1..Len(path.edges) :
          {path.edges[k].u, path.edges[k].v} = {path.nodes[k], path.nodes[k + 1]}

\* every routed obligation of rlist has a path from its source to its target
AllConnected(rlist) ==
    \A k \in 1..Len(rlist) :
        path_connects(rlist[k].path, rlist[k].obligation.source, rlist[k].obligation.target)

\* relax_routing keeps every obligation at its position; every active
\* obligation is routed from its source to its target; an undo is rejected
CommitmentsKept ==
    /\ mode = "relax" =>
          /\ Len(rs[1].current) = Len(routed_in)
          /\ \A k \in 1..Len(routed_in) : rs[1].current[k].obligation = routed_in[k].obligation
          /\ AllConnected(rs[1].current)
    /\ mode = "floor" =>
          /\ AllConnected(active_routed)
          /\ \A k \in 1..Len(active_routed) : active_routed[k].obligation.id = k - 1
    /\ (mode = "undo" /\ lock_event # None) =>
          lock_event[1].undo_attempted /\ lock_event[1].undo_rejected

\* the active set changes by appending one obligation, the ones before it
\* staying in place; an undo attempt leaves the routed list alone
CommitmentsStep ==
    /\ mode = "floor" =>
          /\ Len(active_routed') \in {Len(active_routed), Len(active_routed) + 1}
          /\ \A k \in 1..Len(active_routed) :
                active_routed'[k].obligation = active_routed[k].obligation
    /\ mode = "undo" => routed_in' = routed_in

\* C8: an admitted obligation is never deleted, only rerouted: the active set
\* of estimate_lambda_floor grows by appending only; relax_routing returns the
\* same obligations in the same positions, each with a path from its source to
\* its target; attempt_record_undo always answers undo_rejected.
NeverDeletedOnlyRerouted == [](CommitmentsKept) /\ [][CommitmentsStep]_vars

\* a report whose relaxation rerouted an earlier obligation of the active set
NeverDeletedOnlyReroutedWitness ==
    /\ mode = "floor" /\ Len(active_routed) >= 2
    /\ \E i \in 1..Len(history) : history[i].relaxation_savings > 0

\* the step that rejects the obligation of index t changes nothing but the
\* position in the program, and nothing follows it
SaturationStep ==
    /\ (mode = "floor" /\ rejected = None /\ rejected' # None) =>
          /\ pc' = "saturated"
          /\ UNCHANGED <<t, active_routed, action, prev_load, history>>
          /\ route_obligation(network, rejected'[1],
                              compute_load_from_routed(active_routed), impl) = None
    /\ (mode = "floor" /\ rejected # None) => UNCHANGED vars

\* after the rejection at index t only indices below t are admitted or reported
SaturationState ==
    (mode = "floor" /\ rejected # None) =>
        /\ pc = "saturated" /\ rejected[1].id = t
        /\ \A k \in 1..Len(active_routed) : active_routed[k].obligation.id < t
        /\ \A i \in 1..Len(history) : history[i].time_step < t

\* C9: when route_obligation rejects the obligation of stream index t,
\* estimate_lambda_floor admits nothing at any index >= t, leaves the active
\* set, the action and the recorded reports as they were before index t, and
\* returns the reports recorded so far.
SaturationTerminal == [](SaturationState) /\ [][SaturationStep]_vars

\* a rejection after an admission and a report, with obligations left in the stream
SaturationTerminalWitness ==
    /\ mode = "floor" /\ pc = "saturated" /\ rejected # None
    /\ t >= 1 /\ t + 1 < stream_len /\ Len(history) >= 1

\* C10: after the admission at stream index t a report is recorded exactly
\* when (t + 1) is a multiple of relax_every or t is the last index of the
\* stream; after a report the active set is the relaxed one.
ReportExactlyWhenDue ==
    [][(mode = "floor" /\ t' = t + 1) =>
          LET due == ((t + 1) % relax_every = 0) \/ (t = stream_len - 1)
          IN  IF due
              THEN /\ Len(history') = Len(history) + 1
                   /\ history'[Len(history')].time_step = t
                   /\ total_cost(compute_load_from_routed(active_routed'), interfaces(network))
                         = history'[Len(history')].lambda_E
              ELSE history' = history]_vars

\* what is left of relax_routing's loops: passes left, then obligations left in
\* the pass.  It is a natural number that every step lowers, so the loops end.
RelaxMeasure(r) ==
    IF r.done THEN 0
    ELSE (relax_cap(impl, iterations) - r.pass) * (Len(r.current) + 2) + (Len(r.current) + 2 - r.i)

\* the pass counter stays within the cap, and a return happens before the first
\* pass only with a cap of 0, else after a pass without improvement or the last pass
RelaxPassesBounded ==
    mode = "relax" =>
        /\ RelaxMeasure(rs[1]) >= 0
        /\ rs[1].i >= 1 /\ rs[1].i <= Len(rs[1].current) + 1
        /\ rs[1].pass >= 1 /\ rs[1].pass <= IF relax_cap(impl, iterations) = 0 THEN 1 ELSE relax_cap(impl, iterations)
        /\ rs[1].done =>
              \/ relax_cap(impl, iterations) = 0
              \/ rs[1].i = Len(rs[1].current) + 1 /\ (~rs[1].improved \/ rs[1].pass = relax_cap(impl, iterations))

\* every step brings the return nearer; a pass without improvement is the last
RelaxStepTerminates ==
    (mode = "relax" /\ rs' # rs) =>
        /\ RelaxMeasure(rs'[1]) < RelaxMeasure(rs[1])
        /\ (rs[1].i > Len(rs[1].current) /\ ~rs[1].improved) => rs'[1].done
        /\ (rs[1].i > Len(rs[1].current) /\ rs[1].pass = relax_cap(impl, iterations)) => rs'[1].done
        /\ rs'[1].done => rs'[1].current = rs[1].current

TriangleInequality ==
    (mode = "metric" /\ result # None) =>
        LET d == result[1]
        IN  (d.d_uv.finite /\ d.d_vw.finite) =>
                (d.d_uw.finite /\ d.d_uw.v <= d.d_uv.v + d.d_vw.v + EPS_COST)

\* C13: d(u,u) = 0 and d(u,v) = d(v,u), both infinite or both the same cost
IdentityAndSymmetry ==
    (mode = "metric" /\ result # None) =>
        LET d == result[1]
        IN  /\ d.d_uu = Fin(0)
            /\ d.d_uv.finite = d.d_vu.finite
            /\ d.d_uv.finite => Abs(d.d_uv.v - d.d_vu.v) <= EPS_COST

\* the number of unit commitments admitted on the single edge, and its load
UnitsAdmitted == Len(active_routed)
UnitLoad == Get(compute_load_from_routed(active_routed), I1_of(network).name)

\* one iteration on a single-edge network: an admission adds one unit, leaves
\* the headroom above the slack and (for epsilon > 0) strictly lowers it; a
\* rejection happens only when one more unit would not be admissible, and ends
\* the stream; on SaturationNet exactly the first 4 commitments are admitted
SaturationStep14 ==
    (mode = "floor" /\ Len(network.edges) = 1 /\ pc = "loop" /\ pc' # pc) =>
        LET itf == I1_of(network)
            n == UnitsAdmitted
        IN  /\ IF rejected' = None
               THEN /\ UnitsAdmitted' = n + 1
                    /\ headroom(itf, n + 1) > EPS_SLACK
                    /\ itf.epsilon > 0 => headroom(itf, n + 1) < headroom(itf, n)
               ELSE /\ UnitsAdmitted' = n
                    /\ headroom(itf, n + 1) <= EPS_SLACK
                    /\ pc' = "saturated"
            /\ network = SaturationNet => ((rejected' = None) <=> (n < 4))

\* the admitted units are the load of the edge; they never exceed the largest n
\* with cost(n) <= capacity, which is what max_n returns unless the clamp
\* MAX_LOAD_PER_INTERFACE cuts it
AdmittedWithinFeasibleLoad ==
    (mode = "floor" /\ Len(network.edges) = 1) =>
        /\ UnitLoad = UnitsAdmitted
        /\ UnitsAdmitted <= max_n_unclamped(I1_of(network))
        /\ max_n_unclamped(I1_of(network)) <= MAX_LOAD_PER_INTERFACE =>
               UnitsAdmitted <= max_n(I1_of(network), impl)
        /\ network = SaturationNet => UnitsAdmitted <= 4

NonNegativeInterface(itf) == itf.capacity > 0 /\ itf.epsilon >= 0 /\ itf.eta >= 0

\* max_n is the largest n >= 0 with cost(n) <= capacity, or the clamp
LargestFeasible(itf, m) ==
    /\ m >= 0
    /\ cost(itf, m) <= itf.capacity
    /\ \/ cost(itf, m + 1) > itf.capacity
       \/ impl = "unified_V4" /\ m = MAX_LOAD_PER_INTERFACE

ConfigurationErrorsRejected ==
    (mode = "interface" /\ pc # "idle") =>
        args[1].capacity > 0 /\ args[1].epsilon > 0 /\ args[1].eta > 0

\* C20: for non-negative coefficients cost(0) = 0, cost(n) <= cost(n + 1), and
\* headroom(n) = capacity - cost(n) >= headroom(n + 1)
CostMonotone ==
    (mode = "interface" /\ pc = "called" /\ result[1].op = "cost"
        /\ NonNegativeInterface(args[1])) =>
            LET r == result[1]
            IN  /\ r.n = 0 => r.cost = 0
                /\ r.cost >= 0
                /\ r.cost <= r.cost_next
                /\ r.headroom = args[1].capacity - r.cost
                /\ r.headroom_next = args[1].capacity - r.cost_next
                /\ r.headroom >= r.headroom_next

\* cost has strictly grown between two positive loads of a valid interface
CostMonotoneWitness ==
    /\ mode = "interface" /\ pc = "called" /\ result[1].op = "cost"
    /\ NonNegativeInterface(args[1]) /\ args[1].eta > 0
    /\ result[1].n >= 2
    /\ result[1].cost < result[1].cost_next

\* C17: when each read-decide-write runs as one step of a single writer the
\* shared load stays admissible; with interleaved steps the load is inadmissible
\* only if some caller wrote after the load it had decided on was changed
CheckThenActRace ==
    /\ mode = "serial" =>
           /\ is_admissible(shared_load, interfaces(network))
           /\ \A p \in Procs : ~procs[p].stale
    /\ (mode = "race" /\ ~is_admissible(shared_load, interfaces(network))) =>
           \E p \in Procs : procs[p].pc = "done" /\ procs[p].stale

\* both callers read the same load and decided before either wrote, both have
\* written, and some interface is left with headroom <= EPS_SLACK
CheckThenActRaceWitness ==
    /\ mode = "race"
    /\ \A p \in Procs : procs[p].pc = "done" /\ procs[p].routed # None
    /\ procs[1].load = procs[2].load
    /\ ~is_admissible(shared_load, interfaces(network))
    /\ \E k \in 1..Len(interfaces(network)) :
           headroom(interfaces(network)[k], Get(shared_load, interfaces(network)[k].name)) <= EPS_SLACK

\* position of edge e in the edge list of net (its insertion order)
edge_index(net, e) == CHOOSE k \in 1..Len(net.edges) : net.edges[k] = e

\* edge sequence a comes before b in the order dfs walks: at the first edge
\* where they differ, a takes the edge inserted earlier
RECURSIVE dfs_before(_, _, _, _)
dfs_before(net, a, b, k) ==
    IF k > Len(a) \/ k > Len(b) THEN FALSE
    ELSE IF a[k] = b[k] THEN dfs_before(net, a, b, k + 1)
         ELSE edge_index(net, a[k]) < edge_index(net, b[k])

\* path is a simple path of net from s to d
simple_path(net, path, s, d) ==
    /\ path_connects(path, s, d)
    /\ Cardinality({path.nodes[k] : k \in 1..Len(path.nodes)}) = Len(path.nodes)
    /\ \A k \in 1..Len(path.nodes) : path.nodes[k] \in NodesOf(net)
    /\ \A k \in 1..Len(path.edges) : \E j \in 1..Len(net.edges) : net.edges[j] = path.edges[k]

\* C18: for source # target every returned path is a simple path of the
\* network from source to target along its recorded edges, with at most
\* max_length edges, and when the search has returned the visited set and the
\* path buffers hold what they held at the start
SearchReturnsSimplePaths ==
    (mode = "search" /\ result # None /\ args.source # args.target
        /\ (impl = "unified_V4" => args.max_length > 0)) =>
            LET r == result[1]
            IN  /\ \A k \in 1..Len(r.paths) :
                      /\ simple_path(network, r.paths[k], args.source, args.target)
                      /\ Len(r.paths[k].edges) <= args.max_length
                      /\ Len(r.paths[k].edges) >= 1
                /\ r.visited = {args.source}
                /\ r.path_nodes = <<args.source>>
                /\ r.path_edges = <<>>

\* a search on the complete graph has returned three paths, one of them with
\* three edges
SearchReturnsSimplePathsWitness ==
    /\ mode = "search" /\ result # None /\ network = CompleteNet
    /\ args.source # args.target
    /\ Len(result[1].paths) = 3
    /\ \E k \in 1..3 : Len(result[1].paths[k].edges) = 3

\* C19: at most max_paths paths are returned, in non-decreasing edge count,
\* paths of equal edge count in the order dfs found them, which is the order
\* of edge insertion; source = target gives the single zero-edge path
SearchOrderedAndBounded ==
    (mode = "search" /\ result # None) =>
        LET r == result[1]
        IN  /\ args.source # args.target => Len(r.paths) <= args.max_paths
            /\ \A i \in 1..Len(r.paths) : \A j \in 1..Len(r.paths) :
                   i < j =>
                      /\ Len(r.paths[i].edges) <= Len(r.paths[j].edges)
                      /\ Len(r.paths[i].edges) = Len(r.paths[j].edges) =>
                             dfs_before(network, r.paths[i].edges, r.paths[j].edges, 1)
            /\ args.source = args.target =>
                   r.paths = <<Path(<<args.source>>, <<>>)>>

\* cost(load[i]) / capacity[i] of the k-th interface
fraction_of(load, itfs, k) ==
    Ratio(cost(itfs[k], Get(load, itfs[k].name)), itfs[k].capacity)

RatioEqual(a, b) == a.num * b.den = b.num * a.den

\* C21: the report just recorded carries the largest cost/capacity fraction of
\* the load after relaxation, names an interface attaining it as bottleneck,
\* and the fraction is below 1 when that load is admissible
SaturationFractionIsMax ==
    (mode = "floor" /\ history # <<>> /\ history[Len(history)].time_step = t - 1) =>
        LET load == compute_load_from_routed(active_routed)
            itfs == interfaces(network)
            rep == history[Len(history)]
        IN  /\ \A k \in 1..Len(itfs) :
                   ~RatioGreater(fraction_of(load, itfs, k), rep.lambda_sigma)
            /\ \E k \in 1..Len(itfs) :
                   /\ itfs[k].name = rep.bottleneck
                   /\ RatioEqual(fraction_of(load, itfs, k), rep.lambda_sigma)
            /\ is_admissible(load, itfs) => rep.lambda_sigma.num < rep.lambda_sigma.den

\* every way to give each obligation of the first k entries of rlist one of its
\* candidate paths
RECURSIVE assignments(_, _, _, _)
assignments(net, rlist, k, im) ==
    IF k = 0 THEN {<<>>}
    ELSE LET ob == rlist[k].obligation
             paths == candidates(net, ob, im)
         IN  {Append(a, RoutedObligation(ob, paths[j])) :
                  a \in assignments(net, rlist, k - 1, im), j \in 1..Len(paths)}

\* the assignments whose total load is admissible
admissible_assignments(net, rlist, im) ==
    {a \in assignments(net, rlist, Len(rlist), im) :
         is_admissible(compute_load_from_routed(a), interfaces(net))}

\* C22: for an admissible list of routed obligations, the cost relax_routing
\* returns is never below the least total cost over the admissible assignments
\* of one candidate path to each obligation: some admissible assignment costs
\* no more than the returned load, at the return and at every point before it.
HeuristicAboveOptimum ==
    (mode = "relax" /\ is_admissible(compute_load_from_routed(routed_in), interfaces(network))) =>
        LET itfs == interfaces(network)
        IN  /\ rs[1].current \in admissible_assignments(network, routed_in, impl)
            /\ rs[1].current_cost = total_cost(compute_load_from_routed(rs[1].current), itfs)
            /\ \E a \in admissible_assignments(network, routed_in, impl) :
                   total_cost(compute_load_from_routed(a), itfs) <= rs[1].current_cost

\* a return with a load that improved on the input and is still dearer than the
\* cheapest admissible assignment
HeuristicAboveOptimumWitness ==
    /\ mode = "relax" /\ rs[1].done /\ Len(routed_in) = MaxRouted
    /\ is_admissible(compute_load_from_routed(routed_in), interfaces(network))
    /\ rs[1].current_cost < rs[1].initial_cost
    /\ \E a \in admissible_assignments(network, routed_in, impl) :
           total_cost(compute_load_from_routed(a), interfaces(network)) < rs[1].current_cost

\* the k-th candidate is admissible against the load being tested / its cost
CandidateAdmissible(k) == is_admissible(TestLoad(Candidates[k]), interfaces(network))
CandidateCost(k) == total_cost(TestLoad(Candidates[k]), interfaces(network))

\* C23: route_obligation's answer is a function of network, load and
\* obligation: it is the first candidate, in the order find_all_paths returns
\* them, among the admissible candidates of least total cost.
FirstFoundTieBreak ==
    (mode = "admit" /\ pc = "decided" /\ routed # None) =>
        \E k \in 1..Len(Candidates) :
            /\ routed[1] = RoutedObligation(obligation[1], Candidates[k])
            /\ CandidateAdmissible(k)
            /\ \A j \in 1..Len(Candidates) :
                   CandidateAdmissible(j) =>
                       /\ CandidateCost(k) <= CandidateCost(j)
                       /\ j < k => CandidateCost(k) < CandidateCost(j)

\* two admissible candidates tie at the least cost and the earlier is returned
FirstFoundTieBreakWitness ==
    /\ mode = "admit" /\ pc = "decided" /\ routed # None
    /\ \E k \in 1..Len(Candidates) : \E j \in (k + 1)..Len(Candidates) :
           /\ routed[1].path = Candidates[k]
           /\ CandidateAdmissible(k) /\ CandidateAdmissible(j)
           /\ CandidateCost(k) = CandidateCost(j)

\* |cost(a[i]) - cost(b[i])| on one interface
cost_change(itf, a, b) ==
    LET d == cost(itf, Get(b, itf.name)) - cost(itf, Get(a, itf.name))
    IN  IF d < 0 THEN -d ELSE d

\* the sum of cost_change over the first k interfaces
RECURSIVE total_variation(_, _, _, _)
total_variation(itfs, a, b, k) ==
    IF k = 0 THEN 0 ELSE total_variation(itfs, a, b, k - 1) + cost_change(itfs[k], a, b)

\* the first step has step cost 0 and time 0; every later step has step cost
\* the total variation from the load before it and time the earlier time plus
\* the step cost; action is history_cost of the loads
HistoryRecordsVariation ==
    mode = "history" =>
        /\ \A k \in 1..Len(steps) :
               IF k = 1 THEN steps[k].transition_cost = 0 /\ steps[k].time = 0
               ELSE /\ steps[k].transition_cost =
                          total_variation(tc_interfaces, steps[k - 1].load, steps[k].load,
                                          Len(tc_interfaces))
                    /\ steps[k].time = steps[k - 1].time + steps[k].transition_cost
        /\ History_action(steps) =
               history_cost([k \in 1..Len(steps) |-> steps[k].load], tc_interfaces)

\* an append adds one step at the end and leaves the earlier steps as they were
HistoryAppendOnly ==
    (mode = "history" /\ steps' # steps) =>
        /\ Len(steps') = Len(steps) + 1
        /\ SubSeq(steps', 1, Len(steps)) = steps

\* C24: History.append adds exactly one step and leaves the earlier steps
\* unchanged; the first step records step cost 0 and time 0, every later step
\* the total variation of the interface costs and the accumulated time, and
\* History.action equals history_cost of the appended loads.
HistoryAppendOnlyVariation == [](HistoryRecordsVariation) /\ [][HistoryAppendOnly]_vars

\* three appends, up and then down, with two positive step costs
HistoryAppendOnlyVariationWitness ==
    /\ mode = "history" /\ Len(steps) = 3
    /\ steps[2].transition_cost > 0 /\ steps[3].transition_cost > 0
    /\ steps[3].load = steps[1].load
    /\ steps[3].time = steps[2].transition_cost + steps[3].transition_cost

\* the cost of the existing load with one unit added along path
RoutedCost(path) ==
    total_cost(add_contribution(existing_load, path, 1), interfaces(network))

\* the existing load with one unit added along path is admissible
RoutedAdmissible(path) ==
    is_admissible(add_contribution(existing_load, path, 1), interfaces(network))

\* C25: best_routing returns an admissible path of least total cost among all
\* simple paths from source to target, and None only when none of them is
\* admissible; find_k_shortest_paths returns k simple paths (all of them when
\* there are fewer) and no path left out is shorter than a path returned.
BestRoutingOptimal ==
    (mode = "best" /\ result # None) =>
        LET all == all_simple_paths(network, args.source, args.target)
            r == result[1]
        IN  /\ args.op = "best_routing" =>
                   /\ r.best = None <=> \A i \in 1..Len(all) : ~RoutedAdmissible(all[i])
                   /\ r.best # None =>
                          /\ RoutedAdmissible(r.best[1].path)
                          /\ \A i \in 1..Len(all) :
                                 RoutedAdmissible(all[i]) =>
                                     r.best[1].total_cost <= RoutedCost(all[i])
            /\ args.op = "find_k_shortest_paths" =>
                   /\ Len(r.paths) = IF Len(all) < args.k THEN Len(all) ELSE args.k
                   /\ \A i \in 1..Len(all) :
                          (\A j \in 1..Len(r.paths) : r.paths[j] # all[i]) =>
                              \A j \in 1..Len(r.paths) :
                                  Len(r.paths[j].edges) <= Len(all[i].edges)

\* C26: load vectors that compare equal (a missing key reading 0) have the
\* same hash, so a neighbour equal to the start is found in the visited table;
\* and (L + P) - P compares equal to L with the same hash.
EqualLoadsHashEqual ==
    (mode = "load" /\ result # None) =>
        /\ load_eq(L_prev, L_next, impl) => load_hash(L_prev) = load_hash(L_next)
        /\ args.op = "visited" => (load_eq(L_prev, L_next, impl) => result[1].known)
        /\ args.op = "add_sub" =>
               /\ load_eq(result[1].back, L_prev, impl)
               /\ load_hash(result[1].back) = load_hash(L_prev)

\* a call of route_obligation leaves the load and the obligation it was given;
\* a step of relax_routing leaves the caller's list; the active set of the
\* estimator changes only with a step of its loop, and keeps the obligations
\* already there in their places
InputsUnchanged ==
    /\ (mode = "admit" /\ pc = "idle" /\ pc' = "decided") =>
           existing_load' = existing_load /\ obligation' = obligation
    /\ (mode = "relax" /\ rs' # rs) => routed_in' = routed_in
    /\ (mode = "floor" /\ active_routed' # active_routed) => t' = t + 1

\* the list relax_routing was called with, as the caller holds it, is the one
\* its locals were built from
CallerListKept ==
    mode = "relax" =>
        /\ Len(rs[1].current) = Len(routed_in)
        /\ rs[1].initial_cost = total_cost(compute_load_from_routed(routed_in),
                                           interfaces(network))
        /\ (rs[1].current # routed_in) => rs[1].current_cost < rs[1].initial_cost

LoadOf(load, rlist) ==
    LET summed == compute_load_from_routed(rlist)
    IN  /\ \A name \in NamesOf(network) : Get(load, name) = Get(summed, name)
        /\ \A name \in DOMAIN load : load[name] \in Nat

\* C28: the load relax_routing keeps and returns, the load a report of the
\* estimator is computed from, and the load run_full_chain_simulation routes
\* against are each the sum of demand per traversed edge over the routed
\* obligations then active; every entry is a natural number, also in the load
\* left after one obligation's contribution is subtracted.
LoadBookkeeping ==
    /\ mode = "relax" =>
           /\ LoadOf(rs[1].current_load, rs[1].current)
           /\ \A i \in 1..Len(rs[1].current) :
                  LET remaining_load ==
                          add_contribution(rs[1].current_load, rs[1].current[i].path,
                                           -rs[1].current[i].obligation.demand)
                  IN  \A name \in DOMAIN remaining_load : remaining_load[name] \in Nat
    /\ (mode = "floor" /\ impl = "lambda_floor" /\ history # <<>>
           /\ history[Len(history)].time_step = t - 1) =>
               LoadOf(history[Len(history)].residual_load, active_routed)
    /\ mode = "chain" => LoadOf(existing_load, active_routed)

\* the chain simulation carries a load of three obligations after a relaxation
\* that moved a route within the budget
LoadBookkeepingWitness ==
    /\ mode = "chain" /\ t = 3 /\ Len(active_routed) = 3
    /\ existing_load # prev_load

\* relax_routing called again, with cap n, on the list a call returned
relax_again(n) == relax_routing(network, rs[1].current, n, impl)

\* a call that ended after a pass without replacement returned a fixpoint: a
\* second call, whatever its cap, returns the same routes and the same load
\* and saves nothing
RelaxFixpoint ==
    (mode = "relax" /\ rs[1].done /\ ~rs[1].improved /\ relax_cap(impl, iterations) >= 1) =>
        \A n \in 0..MaxIter :
            LET again == relax_again(n)
            IN  /\ again.current = rs[1].current
                /\ \A name \in NamesOf(network) :
                       Get(again.current_load, name) = Get(rs[1].current_load, name)
                /\ again.initial_cost - again.current_cost = 0

\* while improved is not set in a pass, the routes and the load stay as they were
RelaxPassKeepsRoutes ==
    (mode = "relax" /\ rs' # rs /\ ~rs'[1].improved /\ rs'[1].pass = rs[1].pass) =>
        /\ rs'[1].current = rs[1].current
        /\ rs'[1].current_load = rs[1].current_load

\* C29: when relax_routing ends because a full pass replaced no route, a
\* second call on its output returns the same routes and load with zero
\* savings; and a pass that replaces no route leaves every path as it was.
RelaxIdempotent == [](RelaxFixpoint) /\ [][RelaxPassKeepsRoutes]_vars

\* a call that improved in its first pass and stopped after a second pass
\* without replacement
RelaxIdempotentWitness ==
    /\ mode = "relax" /\ rs[1].done /\ ~rs[1].improved /\ rs[1].pass = 2
    /\ rs[1].current # routed_in
    /\ Len(routed_in) = MaxRouted

\* an obligation rejected stays rejected when the load is raised by a unit on
\* any interface
RejectionKept ==
    (mode = "admit" /\ pc = "decided" /\ pc' = "decided" /\ routed = None) =>
        /\ \A name \in NamesOf(network) : existing_load'[name] >= existing_load[name]
        /\ routed' = None

\* against a load that is inadmissible on some interface of the network every
\* obligation is rejected
InadmissibleLoadRejects ==
    (mode = "admit" /\ pc = "decided"
        /\ ~is_admissible(existing_load, interfaces(network))) => routed = None

\* C30: an obligation route_obligation rejects against a load is rejected
\* against every load at least as large on every interface (shown for each
\* unit increase, from every load), and every obligation, also one with source
\* = target, is rejected when the load is inadmissible on any interface of the
\* network, whether or not a candidate path uses that interface.
RejectionMonotone == [](InadmissibleLoadRejects) /\ [][RejectionKept]_vars

\* an obligation with source = target rejected because an interface, which
\* its only candidate (the path without edges) does not use, is overloaded
RejectionMonotoneWitness ==
    /\ mode = "admit" /\ pc = "decided" /\ routed = None
    /\ obligation[1].source = obligation[1].target
    /\ ~is_admissible(existing_load, interfaces(network))
    /\ \E name \in NamesOf(network) : existing_load[name] = MaxLoad

Spec == SpecFloor

====
